---- MODULE Spec2Model ----
(***************************************************************************)
(* Baseline store, comparator and history ledger of the test-report        *)
(* analyser (baseline_manager.py, automation_api_baseline_manager.py,      *)
(* baseline_history_manager.py).                                           *)
(*                                                                         *)
(* The local disk is a map from path to file content, the remote hosting   *)
(* API a map from path to the list of revisions it holds.  Every public    *)
(* function of the three modules is an operator from the state it reads    *)
(* to the state it leaves and the exception it ends with; the actions      *)
(* apply them to inputs drawn from small sets.                             *)
(***************************************************************************)
EXTENDS Integers, Sequences, FiniteSets, TLC

VARIABLES
    files,      \* local disk: path -> file content (DOMAIN = the files that exist)
    remote,     \* remote repository: path -> sequence of revisions (file texts)
    env,        \* process environment: BASELINE_ADMIN_KEY, GITHUB_TOKEN
    clock,      \* wall clock, in seconds
    lastCall,   \* the call that ended last: operation, arguments, exception, result
    ops,        \* number of calls made so far
    running     \* the save_baseline calls under way: position, arguments, file handle

vars == <<files, remote, env, clock, lastCall, ops, running>>

-----------------------------------------------------------------------------
(* Python values.  A value is a tuple whose first element is its type.     *)

None == <<"none">>
Str(s) == <<"str", s>>
Bool(b) == <<"bool", b>>
Num(n) == <<"int", n>>
List(items) == <<"list", items>>
Dict(d) == <<"dict", d>>

IsList(v) == v[1] = "list"
Items(v) == v[2]
Fields(v) == v[2]

\* bool(v): Python truthiness
truthy(v) ==
    CASE v[1] = "none" -> FALSE
      [] v[1] = "str"  -> v[2] # ""
      [] v[1] = "bool" -> v[2]
      [] v[1] = "int"  -> v[2] # 0
      [] v[1] = "list" -> Len(v[2]) > 0
      [] OTHER         -> DOMAIN v[2] # {}

\* dict.get(key, default) and dict.get(key)
getd(d, key, default) == IF key \in DOMAIN Fields(d) THEN Fields(d)[key] ELSE default
get(d, key) == getd(d, key, None)

\* str(v) as an f-string renders it (only scalars are ever rendered)
pystr(v) ==
    CASE v[1] = "none" -> "None"
      [] v[1] = "str"  -> v[2]
      [] v[1] = "bool" -> (IF v[2] THEN "True" ELSE "False")
      [] OTHER         -> "?"

-----------------------------------------------------------------------------
(* JSON.  A document is a tuple whose first element is its JSON type; a    *)
(* file holds a document, or text that is no document.                     *)

RECURSIVE json_dumps(_)
json_dumps(v) ==
    CASE v[1] = "none" -> <<"null">>
      [] v[1] = "str"  -> <<"string", v[2]>>
      [] v[1] = "bool" -> (IF v[2] THEN <<"true">> ELSE <<"false">>)
      [] v[1] = "int"  -> <<"number", v[2]>>
      [] v[1] = "list" -> <<"array", [i \in 1..Len(v[2]) |-> json_dumps(v[2][i])]>>
      [] OTHER         -> <<"object", [k \in DOMAIN v[2] |-> json_dumps(v[2][k])]>>

RECURSIVE json_loads(_)
json_loads(j) ==
    CASE j[1] = "null"   -> None
      [] j[1] = "string" -> Str(j[2])
      [] j[1] = "true"   -> Bool(TRUE)
      [] j[1] = "false"  -> Bool(FALSE)
      [] j[1] = "number" -> Num(j[2])
      [] j[1] = "array"  -> List([i \in 1..Len(j[2]) |-> json_loads(j[2][i])])
      [] OTHER           -> Dict([k \in DOMAIN j[2] |-> json_loads(j[2][k])])

\* What a file holds: a JSON document, nothing (0 bytes), text that is no JSON
\* document, or bytes that are no UTF-8 text.
JsonText(j) == [kind |-> "json", doc |-> j]
EmptyText == [kind |-> "empty"]
GarbageText == [kind |-> "garbage"]
BinaryText == [kind |-> "binary"]

\* json.dump(v, f): the text written
json_dump(v) == JsonText(json_dumps(v))

\* json.load(f) on a file opened with encoding="utf-8": the value, or the
\* exception of the decoder (UnicodeDecodeError) or of the parser (JSONDecodeError)
json_load(text) ==
    IF text.kind = "json"
    THEN [exc |-> "none", value |-> json_loads(text.doc)]
    ELSE IF text.kind = "binary"
    THEN [exc |-> "UnicodeDecodeError", value |-> None]
    ELSE [exc |-> "JSONDecodeError", value |-> None]

\* open(path, "w") ... write: the file is created or replaced
WriteFile(fs, path, text) ==
    [q \in DOMAIN fs \cup {path} |-> IF q = path THEN text ELSE fs[q]]

\* base64 of a text, and its decoding
b64encode(text) == <<"b64", text>>
b64decode(b) == b[2]

-----------------------------------------------------------------------------
(* The remote hosting API (requests.get / requests.put on the contents     *)
(* endpoint).  A path holds the sequence of its revisions; the revision    *)
(* marker ("sha") of a path is the number of its head revision.  What the  *)
(* network does to one push is drawn by the caller:                        *)
(*   "ok"          both requests are answered and the write is accepted    *)
(*   "rejected"    both requests are answered with an error status         *)
(*   "get_raises"  the GET raises (connection error, timeout)              *)
(*   "put_raises"  the GET is answered, the PUT raises                     *)

NetOutcome == {"ok", "rejected", "get_raises", "put_raises"}

\* requests.get(url, headers): the response, or the exception raised
RemoteGet(rm, path, net) ==
    IF net = "get_raises"
    THEN [exc |-> "ConnectionError", status |-> 0, sha |-> None]
    ELSE IF net = "rejected"
    THEN [exc |-> "none", status |-> 401, sha |-> None]
    ELSE IF path \in DOMAIN rm
    THEN [exc |-> "none", status |-> 200, sha |-> Num(Len(rm[path]))]
    ELSE [exc |-> "none", status |-> 404, sha |-> None]

\* requests.put(url, headers, json=payload): the remote after it, or the exception.
\* An update must name the head revision; a creation names none.
RemotePut(rm, path, payload, net) ==
    IF net = "put_raises"
    THEN [exc |-> "ConnectionError", remote |-> rm]
    ELSE IF net = "rejected"
    THEN [exc |-> "none", remote |-> rm]
    ELSE IF path \in DOMAIN rm
    THEN IF payload.sha = Num(Len(rm[path]))
         THEN [exc |-> "none",
               remote |-> [rm EXCEPT ![path] = Append(@, b64decode(payload.content))]]
         ELSE [exc |-> "none", remote |-> rm]
    ELSE IF payload.sha = None
    THEN [exc |-> "none",
          remote |-> [q \in DOMAIN rm \cup {path} |->
                         IF q = path THEN <<b64decode(payload.content)>> ELSE rm[q]]]
    ELSE [exc |-> "none", remote |-> rm]

\* The body shared by _commit_to_github and _commit_history_to_github once the
\* token is known to be set: read the revision marker, then write with it.
PushFile(rm, path, value, net) ==
    LET r == RemoteGet(rm, path, net)
        sha == IF r.exc = "none" /\ r.status = 200 THEN r.sha ELSE None
        payload == [content |-> b64encode(json_dump(value)),
                    sha |-> IF truthy(sha) THEN sha ELSE None]
        w == RemotePut(rm, path, payload, net)
    IN  IF r.exc # "none"
        THEN [exc |-> r.exc, remote |-> rm, http |-> <<<<"GET", path>>>>]
        ELSE [exc |-> w.exc, remote |-> w.remote,
              http |-> <<<<"GET", path>>, <<"PUT", path>>>>]

-----------------------------------------------------------------------------
(* baseline_history_manager.py                                             *)

HISTORY_LIMIT == 50

\* datetime.now().strftime("%Y-%m-%d %H:%M:%S"): day, then hh:mm:ss
strftime(t) ==
    ToString(t \div 86400) \o " " \o ToString((t % 86400) \div 3600) \o ":"
        \o ToString((t % 3600) \div 60) \o ":" \o ToString(t % 60)

\* One history directory for both report types, where the code has two
_get_history_path_Shared(project_name, report_type) ==
    "baselines/provar_history" \o "/" \o project_name \o "_history.json"

_get_history_path(project_name, report_type) ==
    (IF report_type = "provar" THEN "baselines/provar_history" ELSE "baselines/api_history")
        \o "/" \o project_name \o "_history.json"

\* seq[:n] where the code has seq[-n:]: the cap keeps the oldest entries
LastN_KeepsOldest(seq, n) == IF Len(seq) > n THEN SubSeq(seq, 1, n) ELSE seq

\* seq[-n:]
LastN(seq, n) == IF Len(seq) > n THEN SubSeq(seq, Len(seq) - n + 1, Len(seq)) ELSE seq

\* seq[:n]
FirstN(seq, n) ==
    IF n >= 0
    THEN (IF Len(seq) > n THEN SubSeq(seq, 1, n) ELSE seq)
    ELSE (IF Len(seq) + n > 0 THEN SubSeq(seq, 1, Len(seq) + n) ELSE <<>>)

\* list(seq) where the code has list(reversed(seq)): append order is kept
Reversed_KeepsOrder(seq) == seq

\* list(reversed(seq))
Reversed(seq) == [i \in 1..Len(seq) |-> seq[Len(seq) + 1 - i]]

\* The characters of a text, and the keys of a dict in the order the dict keeps
\* them (a dict of at most one key leaves no choice of order)
Chars(text) == [i \in 1..Len(text) |-> Str(SubSeq(text, i, i))]
Keys(d) ==
    LET n == Cardinality(DOMAIN d)
        order == CHOOSE o \in [1..n -> DOMAIN d] : \A i, j \in 1..n : i # j => o[i] # o[j]
    IN  [i \in 1..n |-> Str(order[i])]

\* list(reversed(v)) for a value json.load has returned: a list, a text and a
\* dict can be reversed, None, a number and a boolean raise TypeError
reversed_list(v) ==
    CASE v[1] = "list" -> [exc |-> "none", value |-> Reversed(v[2])]
      [] v[1] = "str"  -> [exc |-> "none", value |-> Reversed(Chars(v[2]))]
      [] v[1] = "dict" -> [exc |-> "none", value |-> Reversed(Keys(v[2]))]
      [] OTHER         -> [exc |-> "TypeError", value |-> <<>>]

\* seq.pop() where the code has del seq[i]: the last element goes, whatever i
DelAt_PopsLast(seq, i) == SubSeq(seq, 1, Len(seq) - 1)

\* del seq[i], i a 0-based index within range
DelAt(seq, i) == [k \in 1..(Len(seq) - 1) |-> IF k <= i THEN seq[k] ELSE seq[k + 1]]

_commit_history_to_github(rm, token, project_name, history, report_type, net) ==
    IF ~truthy(token)
    THEN [remote |-> rm, http |-> <<>>]
    ELSE LET base_dir == IF report_type = "provar" THEN "provar_history" ELSE "api_history"
             file_path == "baselines/" \o base_dir \o "/" \o project_name \o "_history.json"
             r == PushFile(rm, file_path, history, net)
         IN  \* except: pass
             [remote |-> r.remote, http |-> r.http]

\* The history entry save_baseline_history builds
NewEntry(now, failures, report_type) ==
    Dict([timestamp |-> Str(strftime(now)),
          failure_count |-> Num(Len(Items(failures))),
          failures |-> failures,
          report_type |-> Str(report_type)])

save_baseline_history(fs, rm, token, now, project_name, failures, report_type, net) ==
    LET history_path == _get_history_path(project_name, report_type)
        loaded == IF history_path \in DOMAIN fs
                  THEN (LET r == json_load(fs[history_path])
                        IN  IF r.exc = "none" THEN r.value ELSE List(<<>>))
                  ELSE List(<<>>)
        new_entry == NewEntry(now, failures, report_type)
    IN  IF ~IsList(loaded)
        THEN \* history.append on a value that is no list
             [exc |-> "AttributeError", files |-> fs, remote |-> rm, http |-> <<>>]
        ELSE LET history == List(LastN(Append(Items(loaded), new_entry), HISTORY_LIMIT))
                 fs2 == WriteFile(fs, history_path, json_dump(history))
                 c == _commit_history_to_github(rm, token, project_name, history,
                                                report_type, net)
             IN  [exc |-> "none", files |-> fs2, remote |-> c.remote, http |-> c.http]

get_baseline_history(fs, project_name, report_type, limit) ==
    LET history_path == _get_history_path(project_name, report_type)
    IN  IF history_path \notin DOMAIN fs
        THEN List(<<>>)
        ELSE LET r == json_load(fs[history_path])
                 rev == reversed_list(r.value)
             IN  IF r.exc = "none" /\ rev.exc = "none"
                 THEN List(FirstN(rev.value, limit))
                 ELSE List(<<>>)

\* datetime.strptime(s, "%Y-%m-%d %H:%M:%S") over the times the clock can have
\* shown: the time, or ValueError
TimeRange == (0 - HISTORY_LIMIT - 1)..(HISTORY_LIMIT + 1)
strptime(v) ==
    IF v[1] = "str" /\ \E t \in TimeRange : strftime(t) = v[2]
    THEN [exc |-> "none", value |-> CHOOSE t \in TimeRange : strftime(t) = v[2]]
    ELSE [exc |-> "ValueError", value |-> 0]

\* _calculate_time_diff(time1, time2); a timedelta holds days and the seconds
\* within the day
_calculate_time_diff(time1, time2) ==
    LET dt1 == strptime(time1)
        dt2 == strptime(time2)
        diff == dt2.value - dt1.value
        days == diff \div 86400
        seconds == diff % 86400
        hours == seconds \div 3600
        minutes == (seconds % 3600) \div 60
    IN  IF dt1.exc # "none" \/ dt2.exc # "none" THEN "Unknown"
        ELSE IF days > 0 THEN ToString(days) \o " day(s)"
        ELSE IF hours > 0 THEN ToString(hours) \o " hour(s)"
        ELSE ToString(minutes) \o " minute(s)"

\* A float with two decimals, held as its number of hundredths
Float2(hundredths) == <<"float", hundredths>>

\* A percentage that divides by the previous count whatever it is
Percentage_Unguarded(current_count, previous_count) ==
    IF previous_count = 0 THEN <<"ZeroDivisionError">>
    ELSE Float2((20000 * (current_count - previous_count) + previous_count)
                    \div (2 * previous_count))

\* round((current - previous) / previous * 100, 2) if previous > 0 else 0
Percentage(current_count, previous_count) ==
    IF previous_count > 0
    THEN Float2((20000 * (current_count - previous_count) + previous_count)
                    \div (2 * previous_count))
    ELSE Num(0)

\* The exception get_baseline_comparison ends with, "none" when it returns:
\* current.get and previous.get need the two entries to be dicts
ComparisonRaises(fs, project_name, report_type) ==
    LET history == Items(get_baseline_history(fs, project_name, report_type, 2))
    IN  IF Len(history) >= 2 /\ (history[1][1] # "dict" \/ history[2][1] # "dict")
        THEN "AttributeError"
        ELSE "none"

\* get_baseline_comparison(project_name, report_type): what it returns when it
\* returns
get_baseline_comparison(fs, project_name, report_type) ==
    LET history == Items(get_baseline_history(fs, project_name, report_type, 2))
    IN  IF Len(history) < 2 \/ ComparisonRaises(fs, project_name, report_type) # "none"
        THEN None
        ELSE LET current == history[1]
                 previous == history[2]
                 current_count == getd(current, "failure_count", Num(0))[2]
                 previous_count == getd(previous, "failure_count", Num(0))[2]
             IN  Dict([current |-> current,
                       previous |-> previous,
                       diff |-> Dict([failure_count_change |->
                                          Num(current_count - previous_count),
                                      percentage_change |->
                                          Percentage(current_count, previous_count),
                                      time_between |->
                                          Str(_calculate_time_diff(get(previous, "timestamp"),
                                                                   get(current, "timestamp")))])])

delete_baseline_version(fs, expected, project_name, version_index, report_type, admin_key) ==
    LET history_path == _get_history_path(project_name, report_type)
    IN  IF ~truthy(expected) \/ admin_key # expected
        THEN [exc |-> "PermissionError", files |-> fs]
        ELSE IF history_path \notin DOMAIN fs
        THEN [exc |-> "FileNotFoundError", files |-> fs]
        ELSE LET r == json_load(fs[history_path])
             IN  IF r.exc # "none"
                 THEN [exc |-> r.exc, files |-> fs]
                 ELSE IF reversed_list(r.value).exc # "none"
                 THEN [exc |-> reversed_list(r.value).exc, files |-> fs]
                 ELSE LET history == reversed_list(r.value).value
                          n == Len(history)
                      IN  IF version_index >= n
                          THEN [exc |-> "IndexError", files |-> fs]
                          ELSE IF version_index < 0 - n
                          THEN \* del history[version_index] raises
                               [exc |-> "IndexError", files |-> fs]
                          ELSE LET i == IF version_index < 0 THEN n + version_index
                                        ELSE version_index
                                   rest == DelAt(history, i)
                               IN  [exc |-> "none",
                                    files |-> WriteFile(fs, history_path,
                                                        json_dump(List(Reversed(rest))))]

-----------------------------------------------------------------------------
(* baseline_manager.py (report type "provar")                              *)

_get_baseline_path(project_name) == "baselines" \o "/" \o project_name \o ".json"

\* bool(load_baseline(project)) where the code has os.path.exists: an empty baseline
\* counts as none
provar_baseline_exists_NonEmpty(fs, project_name) ==
    /\ _get_baseline_path(project_name) \in DOMAIN fs
    /\ fs[_get_baseline_path(project_name)] # json_dump(List(<<>>))

provar_baseline_exists(fs, project_name) == _get_baseline_path(project_name) \in DOMAIN fs

\* The exception load_baseline ends with, "none" when it returns: only
\* json.JSONDecodeError is caught
LoadRaises(fs, path) ==
    IF path \notin DOMAIN fs THEN "none"
    ELSE IF fs[path].kind = "empty" THEN "none"
    ELSE LET r == json_load(fs[path])
         IN  IF r.exc = "JSONDecodeError" THEN "none" ELSE r.exc

\* The body load_baseline shares in both managers, given the path: the list it
\* returns when it returns
LoadList(fs, path) ==
    IF path \notin DOMAIN fs
    THEN List(<<>>)
    ELSE IF fs[path].kind = "empty"
    THEN List(<<>>)
    ELSE LET r == json_load(fs[path])
         IN  IF r.exc = "JSONDecodeError"
             THEN List(<<>>)
             ELSE IF IsList(r.value) THEN r.value ELSE List(<<>>)

load_provar_baseline(fs, project_name) == LoadList(fs, _get_baseline_path(project_name))

_commit_to_github(rm, token, project_name, failures, net) ==
    IF ~truthy(token)
    THEN [exc |-> "none", remote |-> rm, http |-> <<>>]
    ELSE LET file_path == "baselines" \o "/" \o project_name \o ".json"
         IN  PushFile(rm, file_path, IF truthy(failures) THEN failures ELSE List(<<>>), net)

\* The gate without its comparison: any key passes once a key is configured
AdminGate_ComparesNothing(expected, admin_key) ==
    IF ~truthy(expected) THEN "RuntimeError" ELSE "none"

\* The gate without its test of the configuration: the key passes when it
\* equals what the environment holds, be that nothing
AdminGate_OnlyCompares(expected, admin_key) ==
    IF admin_key # expected THEN "PermissionError" ELSE "none"

\* The admin gate of save_baseline (both managers) and rollback_baseline:
\* the exception it raises, "none" when the key is accepted
AdminGate(expected, admin_key) ==
    IF ~truthy(expected) THEN "RuntimeError"
    ELSE IF admin_key # expected THEN "PermissionError"
    ELSE "none"

save_provar_baseline(fs, rm, expected, token, now, project_name, failures, admin_key, netH, netB) ==
    LET gate == AdminGate(expected, admin_key)
        kept == IF truthy(failures) THEN failures ELSE List(<<>>)
        fs2 == WriteFile(fs, _get_baseline_path(project_name), json_dump(kept))
        h == save_baseline_history(fs2, rm, token, now, project_name, kept, "provar", netH)
        c == _commit_to_github(h.remote, token, project_name, kept, netB)
    IN  IF gate # "none"
        THEN [exc |-> gate, files |-> fs, remote |-> rm, http |-> <<>>]
        ELSE IF h.exc # "none"
        THEN [exc |-> h.exc, files |-> h.files, remote |-> h.remote, http |-> h.http]
        ELSE [exc |-> c.exc, files |-> h.files, remote |-> c.remote,
              http |-> h.http \o c.http]

\* The key compare_with_baseline gives a record: f"{testcase}|{error}"
provar_key(f) == pystr(get(f, "testcase")) \o "|" \o pystr(get(f, "error"))

\* A loop that inserts each record at the head of its list, where the code appends
RECURSIVE ProvarCompareLoop_Prepends(_, _, _, _)
ProvarCompareLoop_Prepends(todo, baseline_keys, new_failures, existing_failures) ==
    IF todo = <<>>
    THEN [new_failures |-> List(new_failures),
          existing_failures |-> List(existing_failures)]
    ELSE LET f == Head(todo)
         IN  IF provar_key(f) \in baseline_keys
             THEN ProvarCompareLoop_Prepends(Tail(todo), baseline_keys, new_failures,
                                             <<f>> \o existing_failures)
             ELSE ProvarCompareLoop_Prepends(Tail(todo), baseline_keys,
                                             <<f>> \o new_failures, existing_failures)

\* The loop of compare_with_baseline over the records still to visit
RECURSIVE ProvarCompareLoop(_, _, _, _)
ProvarCompareLoop(todo, baseline_keys, new_failures, existing_failures) ==
    IF todo = <<>>
    THEN [new_failures |-> List(new_failures),
          existing_failures |-> List(existing_failures)]
    ELSE LET f == Head(todo)
         IN  IF provar_key(f) \in baseline_keys
             THEN ProvarCompareLoop(Tail(todo), baseline_keys, new_failures,
                                    Append(existing_failures, f))
             ELSE ProvarCompareLoop(Tail(todo), baseline_keys,
                                    Append(new_failures, f), existing_failures)

compare_provar_baseline(fs, project_name, current_failures) ==
    LET baseline == Items(load_provar_baseline(fs, project_name))
        baseline_keys == {provar_key(baseline[i]) : i \in 1..Len(baseline)}
    IN  ProvarCompareLoop(Items(current_failures), baseline_keys, <<>>, <<>>)

\* What the network may do to the three reads by which rollback_baseline fetches
\* a revision (commit, tree, blob)
FetchOutcome == {"ok", "rejected", "get_raises"}

\* A push that replaces the remote history of the file by the content alone,
\* where the code adds a revision
RollbackPush_Rewrites(rm, path, content, net) ==
    [exc |-> "none",
     remote |-> [q \in DOMAIN rm \cup {path} |-> IF q = path THEN <<content>> ELSE rm[q]],
     http |-> <<<<"GET", path>>, <<"PUT", path>>>>]

\* The last two requests of rollback_baseline: read the revision marker of the
\* file, whatever the status, and write the content with it
RollbackPush(rm, path, content, net) ==
    LET r == RemoteGet(rm, path, net)
        payload == [content |-> b64encode(content), sha |-> r.sha]
        w == RemotePut(rm, path, payload, net)
    IN  IF r.exc # "none"
        THEN [exc |-> r.exc, remote |-> rm, http |-> <<<<"GET", path>>>>]
        ELSE [exc |-> w.exc, remote |-> w.remote,
              http |-> <<<<"GET", path>>, <<"PUT", path>>>>]

\* rollback_baseline(project_name, commit_sha, admin_key).  A commit is named by
\* the number of the revision of the baseline file it made (the commits that
\* get_baseline_history lists for the file); any other name is unknown to the
\* remote.
rollback_baseline(fs, rm, expected, token, project_name, commit_sha, admin_key, netF, netP) ==
    LET gate == AdminGate(expected, admin_key)
        file_path == "baselines" \o "/" \o project_name \o ".json"
        fetch == <<<<"GET", "commit">>, <<"GET", "tree">>, <<"GET", "blob">>>>
        known == file_path \in DOMAIN rm /\ commit_sha \in 1..Len(rm[file_path])
    IN  IF gate # "none"
        THEN [exc |-> gate, files |-> fs, remote |-> rm, http |-> <<>>]
        ELSE IF ~truthy(token)
        THEN [exc |-> "RuntimeError", files |-> fs, remote |-> rm, http |-> <<>>]
        ELSE IF netF = "get_raises"
        THEN [exc |-> "ConnectionError", files |-> fs, remote |-> rm,
              http |-> SubSeq(fetch, 1, 1)]
        ELSE IF netF = "rejected" \/ ~known
        THEN \* commit_resp.status_code != 200
             [exc |-> "RuntimeError", files |-> fs, remote |-> rm,
              http |-> SubSeq(fetch, 1, 1)]
        ELSE LET content == rm[file_path][commit_sha]
                 fs2 == WriteFile(fs, _get_baseline_path(project_name), content)
                 w == RollbackPush(rm, file_path, content, netP)
             IN  [exc |-> w.exc, files |-> fs2, remote |-> w.remote,
                  http |-> fetch \o w.http]

-----------------------------------------------------------------------------
(* automation_api_baseline_manager.py (report type "automation_api")       *)

_get_api_baseline_path(project_name) ==
    "baselines/automation_api" \o "/" \o project_name \o ".json"

api_baseline_exists(fs, project_name) == _get_api_baseline_path(project_name) \in DOMAIN fs

load_api_baseline(fs, project_name) == LoadList(fs, _get_api_baseline_path(project_name))

\* The record stored as it came, where the code keeps five fields of it
clean_failure_KeepsAll(f) == f

\* The record save_baseline keeps of one failure
clean_failure(f) ==
    Dict([project |-> get(f, "project"),
          spec_file |-> get(f, "spec_file"),
          test_name |-> get(f, "test_name"),
          error_summary |-> get(f, "error_summary"),
          is_skipped |-> getd(f, "is_skipped", Bool(FALSE))])

\* The list save_baseline stores: the records that are no "no failures" marker, cleaned
clean_failures(failures) ==
    LET real == SelectSeq(Items(failures), LAMBDA f : ~truthy(get(f, "_no_failures")))
    IN  List([i \in 1..Len(real) |-> clean_failure(real[i])])

save_api_baseline(fs, expected, project_name, failures, admin_key) ==
    LET gate == AdminGate(expected, admin_key)
    IN  IF gate # "none"
        THEN [exc |-> gate, files |-> fs]
        ELSE [exc |-> "none",
              files |-> WriteFile(fs, _get_api_baseline_path(project_name),
                                  json_dump(clean_failures(failures)))]

\* The signature compare_with_baseline gives a record:
\* f"{spec_file}|{test_name}|{error_summary or ''}"
api_sig(f) ==
    pystr(get(f, "spec_file")) \o "|" \o pystr(get(f, "test_name")) \o "|"
        \o pystr(getd(f, "error_summary", Str("")))

\* A loop that sorts the "no failures" records like any other record, where the
\* code skips them
RECURSIVE ApiCompareLoop_KeepsFlagged(_, _, _, _)
ApiCompareLoop_KeepsFlagged(todo, baseline_sigs, new_failures, existing_failures) ==
    IF todo = <<>>
    THEN [new_failures |-> List(new_failures),
          existing_failures |-> List(existing_failures)]
    ELSE LET failure == Head(todo)
         IN  IF api_sig(failure) \in baseline_sigs
             THEN ApiCompareLoop_KeepsFlagged(Tail(todo), baseline_sigs, new_failures,
                                              Append(existing_failures, failure))
             ELSE ApiCompareLoop_KeepsFlagged(Tail(todo), baseline_sigs,
                                              Append(new_failures, failure),
                                              existing_failures)

\* The loop of compare_with_baseline over the records still to visit
RECURSIVE ApiCompareLoop(_, _, _, _)
ApiCompareLoop(todo, baseline_sigs, new_failures, existing_failures) ==
    IF todo = <<>>
    THEN [new_failures |-> List(new_failures),
          existing_failures |-> List(existing_failures)]
    ELSE LET failure == Head(todo)
         IN  IF truthy(get(failure, "_no_failures"))
             THEN ApiCompareLoop(Tail(todo), baseline_sigs, new_failures,
                                 existing_failures)
             ELSE IF api_sig(failure) \in baseline_sigs
             THEN ApiCompareLoop(Tail(todo), baseline_sigs, new_failures,
                                 Append(existing_failures, failure))
             ELSE ApiCompareLoop(Tail(todo), baseline_sigs,
                                 Append(new_failures, failure), existing_failures)

compare_api_baseline(fs, project_name, current_failures) ==
    LET baseline == Items(load_api_baseline(fs, project_name))
        baseline_sigs == {api_sig(baseline[i]) : i \in 1..Len(baseline)}
    IN  ApiCompareLoop(Items(current_failures), baseline_sigs, <<>>, <<>>)

-----------------------------------------------------------------------------
(* The full comparisons: automation_api_extractor.compare_api_reports and  *)
(* comparison_engine.compare_reports.  Both build Python sets of keys; the *)
(* order in which a set is iterated is not fixed by the language (string   *)
(* hashing is seeded per process), so a list built from a set is given by  *)
(* an ordering of the set that the caller draws.                           *)

\* The orderings of a finite set
Orderings(S) ==
    {o \in [1..Cardinality(S) -> S] : \A i, j \in 1..Cardinality(S) : o[i] = o[j] => i = j}

\* make_key(failure): f"{spec_name}::{testcase_name}"
make_key(failure) ==
    pystr(getd(failure, "spec_name", Str(""))) \o "::"
        \o pystr(getd(failure, "testcase_name", Str("")))

\* {make_key(f): f for f in failures}: the last record of each key
KeyMap(failures) ==
    [k \in {make_key(failures[i]) : i \in 1..Len(failures)} |->
        failures[CHOOSE i \in 1..Len(failures) :
                     /\ make_key(failures[i]) = k
                     /\ \A j \in (i + 1)..Len(failures) : make_key(failures[j]) # k]]

\* The list a "no failures" record in first place stands for
DropNoFailures(failures) ==
    IF failures # <<>> /\ truthy(get(failures[1], "_no_failures")) THEN <<>> ELSE failures

\* The three sets of keys compare_api_reports iterates
ApiReportKeys(current_failures, baseline_failures) ==
    LET current_keys == DOMAIN KeyMap(DropNoFailures(Items(current_failures)))
        baseline_keys == DOMAIN KeyMap(DropNoFailures(Items(baseline_failures)))
    IN  [new_keys |-> current_keys \ baseline_keys,
         fixed_keys |-> baseline_keys \ current_keys,
         common_keys |-> current_keys \cap baseline_keys]

\* compare_api_reports(current_failures, baseline_failures), the three sets
\* iterated in the orders given
compare_api_reports(current_failures, baseline_failures, oNew, oFixed, oCommon) ==
    LET current == DropNoFailures(Items(current_failures))
        baseline == DropNoFailures(Items(baseline_failures))
        current_map == KeyMap(current)
        baseline_map == KeyMap(baseline)
    IN  [new_failures |-> List([i \in DOMAIN oNew |-> current_map[oNew[i]]]),
         fixed_failures |-> List([i \in DOMAIN oFixed |-> baseline_map[oFixed[i]]]),
         common_failures |-> List([i \in DOMAIN oCommon |-> current_map[oCommon[i]]]),
         current_total |-> Len(current),
         baseline_total |-> Len(baseline),
         new_count |-> Len(oNew),
         fixed_count |-> Len(oFixed),
         common_count |-> Len(oCommon)]

\* f["testcase"] + "|" + f["error"]: the signature, or KeyError
report_sig(f) ==
    IF "testcase" \in DOMAIN Fields(f) /\ "error" \in DOMAIN Fields(f)
    THEN [exc |-> "none", sig |-> Fields(f)["testcase"][2] \o "|" \o Fields(f)["error"][2]]
    ELSE [exc |-> "KeyError", sig |-> ""]

\* The loop of compare_reports over the records still to visit
RECURSIVE ReportsLoop(_, _, _, _, _)
ReportsLoop(todo, baseline_sigs, new_sigs, new_fails, known_fails) ==
    IF todo = <<>>
    THEN [exc |-> "none", new_sigs |-> new_sigs, new |-> new_fails, known |-> known_fails]
    ELSE LET f == Head(todo)
             s == report_sig(f)
         IN  IF s.exc # "none"
             THEN [exc |-> s.exc, new_sigs |-> new_sigs, new |-> new_fails,
                   known |-> known_fails]
             ELSE IF s.sig \in baseline_sigs
             THEN ReportsLoop(Tail(todo), baseline_sigs, new_sigs \cup {s.sig}, new_fails,
                              Append(known_fails, f))
             ELSE ReportsLoop(Tail(todo), baseline_sigs, new_sigs \cup {s.sig},
                              Append(new_fails, f), known_fails)

\* The set of signatures compare_reports turns into the list "fixed"
ReportsFixed(new, baseline) ==
    LET r == ReportsLoop(Items(new), DOMAIN Fields(baseline), {}, <<>>, <<>>)
    IN  IF r.exc # "none" THEN {} ELSE DOMAIN Fields(baseline) \ r.new_sigs

\* compare_reports(new, baseline): baseline is a dict keyed by signature;
\* fixed is a list of signatures, the set iterated in the order given
compare_reports(new, baseline, oFixed) ==
    LET r == ReportsLoop(Items(new), DOMAIN Fields(baseline), {}, <<>>, <<>>)
    IN  IF r.exc # "none"
        THEN [exc |-> r.exc]
        ELSE [exc |-> "none",
              new |-> List(r.new),
              known |-> List(r.known),
              fixed |-> List([i \in DOMAIN oFixed |-> Str(oFixed[i])])]

-----------------------------------------------------------------------------
(* Inputs                                                                  *)

MaxOps == 2
MaxClock == 1
MaxIndex == 1

Projects == {"P", "Q"}
ReportTypes == {"provar", "automation_api"}

\* What BASELINE_ADMIN_KEY and GITHUB_TOKEN may hold, and the keys callers give
AdminKeyEnv == {None, Str(""), Str("k1")}
TokenEnv == {None, Str("tok")}
Credentials == {None, Str("k1"), Str("bad")}

\* Provar failure records: P1 and P1b are the same failure seen in two runs
P1 == Dict([testcase |-> Str("T1"), error |-> Str("E1"), details |-> Str("d1")])
P1b == Dict([testcase |-> Str("T1"), error |-> Str("E1"), details |-> Str("d2")])
P2 == Dict([testcase |-> Str("T2"), error |-> Str("E2"), details |-> Str("d1")])

\* AutomationAPI failure records, and the parser's "no failures" marker
A1 == Dict([project |-> Str("P"), spec_file |-> Str("s1"), test_name |-> Str("t1"),
            error_summary |-> Str("e1"), is_skipped |-> Bool(FALSE),
            error_details |-> Str("d1")])
A2 == Dict([project |-> Str("P"), spec_file |-> Str("s1"), test_name |-> Str("t2"),
            error_summary |-> Str("e2"), is_skipped |-> Bool(TRUE),
            error_details |-> Str("d2")])
NoFailures == Dict([project |-> Str("P"), _no_failures |-> Bool(TRUE)])

ProvarLists == {List(<<>>), List(<<P1>>), List(<<P2, P1b>>)}
ApiLists == {List(<<>>), List(<<A1>>), List(<<NoFailures, A2>>)}

Indexes == 0..MaxIndex

NoResult == [new_failures |-> List(<<>>), existing_failures |-> List(<<>>)]

Call(op, rtype, project, failures, key, index, exc, http) ==
    [op |-> op, rtype |-> rtype, project |-> project, failures |-> failures,
     key |-> key, index |-> index, exc |-> exc, http |-> http, result |-> NoResult]

NoCall == Call("none", "", "", List(<<>>), None, 0, "none", <<>>)

-----------------------------------------------------------------------------
(* The store: saves, version deletions and the clock                       *)

Init ==
    /\ files = <<>>
    /\ remote = <<>>
    /\ env \in [BASELINE_ADMIN_KEY : AdminKeyEnv, GITHUB_TOKEN : TokenEnv]
    /\ clock = 0
    /\ lastCall = NoCall
    /\ ops = 0
    /\ running = <<>>

\* What the network may do to a push of a call made with this key: a call that
\* sends no request has nothing to draw
Network(key) ==
    IF AdminGate(env.BASELINE_ADMIN_KEY, key) = "none" /\ truthy(env.GITHUB_TOKEN)
    THEN NetOutcome
    ELSE {"ok"}

SaveProvarBaseline(p, f, key, netH, netB) ==
    LET r == save_provar_baseline(files, remote, env.BASELINE_ADMIN_KEY, env.GITHUB_TOKEN,
                                  clock, p, f, key, netH, netB)
    IN  /\ ops < MaxOps
        /\ files' = r.files
        /\ remote' = r.remote
        /\ lastCall' = Call("save_baseline", "provar", p, f, key, 0, r.exc, r.http)
        /\ ops' = ops + 1
        /\ UNCHANGED <<env, clock, running>>

SaveApiBaseline(p, f, key) ==
    LET r == save_api_baseline(files, env.BASELINE_ADMIN_KEY, p, f, key)
    IN  /\ ops < MaxOps
        /\ files' = r.files
        /\ lastCall' = Call("save_baseline", "automation_api", p, f, key, 0, r.exc, <<>>)
        /\ ops' = ops + 1
        /\ UNCHANGED <<remote, env, clock, running>>

DeleteBaselineVersion(p, t, i, key) ==
    LET r == delete_baseline_version(files, env.BASELINE_ADMIN_KEY, p, i, t, key)
    IN  /\ ops < MaxOps
        /\ files' = r.files
        /\ lastCall' = Call("delete_baseline_version", t, p, List(<<>>), key, i, r.exc, <<>>)
        /\ ops' = ops + 1
        /\ UNCHANGED <<remote, env, clock, running>>

Next ==
    \/ \E p \in Projects, f \in ProvarLists, key \in Credentials :
           \E netH, netB \in Network(key) : SaveProvarBaseline(p, f, key, netH, netB)
    \/ \E p \in Projects, f \in ApiLists, key \in Credentials : SaveApiBaseline(p, f, key)
    \/ \E p \in Projects, t \in ReportTypes, i \in Indexes, key \in Credentials :
           DeleteBaselineVersion(p, t, i, key)

Spec == Init /\ [][Next]_vars

-----------------------------------------------------------------------------
(* The ledger alone: appends, version deletions by the admin and the       *)
(* clock, from a ledger that earlier saves have left, with no remote       *)
(* configured                                                              *)

MaxLedgerIndex == 3
MaxLimit == 4

\* The ledger of n saves made one second apart, the last one second ago: three
\* saves of different lists, or a long run of saves of an empty list
SeedList(n, i) ==
    IF n > 3 THEN List(<<>>)
    ELSE IF i = 1 THEN List(<<P1>>) ELSE IF i = 2 THEN List(<<P2, P1b>>) ELSE List(<<>>)
SeedLedger(n) == [i \in 1..n |-> NewEntry(i - n - 1, SeedList(n, i), "provar")]
\* The disk holding that ledger for project P, report type provar, and nothing else
SeededDisk(n) ==
    IF n = 0 THEN <<>>
    ELSE WriteFile(<<>>, _get_history_path("P", "provar"), json_dump(List(SeedLedger(n))))

InitLedger ==
    /\ \E n \in {0, 3} : files = SeededDisk(n)
    /\ remote = <<>>
    /\ env = [BASELINE_ADMIN_KEY |-> Str("k1"), GITHUB_TOKEN |-> None]
    /\ clock = 0
    /\ lastCall = NoCall
    /\ ops = 0
    /\ running = <<>>

SaveBaselineHistory(p, t, f) ==
    LET r == save_baseline_history(files, remote, env.GITHUB_TOKEN, clock, p, f, t, "ok")
    IN  /\ ops < MaxOps
        /\ files' = r.files
        /\ remote' = r.remote
        /\ lastCall' = Call("save_baseline_history", t, p, f, None, 0, r.exc, r.http)
        /\ ops' = ops + 1
        /\ UNCHANGED <<env, clock, running>>

Tick ==
    /\ clock < MaxClock
    /\ clock' = clock + 1
    /\ UNCHANGED <<files, remote, env, lastCall, ops, running>>

\* get_baseline_history(project_name, report_type, limit)
GetBaselineHistory(p, t, limit) ==
    /\ lastCall' = [Call("get_baseline_history", t, p, List(<<>>), None, limit, "none", <<>>)
                       EXCEPT !.result = [history |-> get_baseline_history(files, p, t, limit)]]
    /\ UNCHANGED <<files, remote, env, clock, ops, running>>

\* get_baseline_comparison(project_name, report_type)
GetBaselineComparison(p, t) ==
    /\ lastCall' = [Call("get_baseline_comparison", t, p, List(<<>>), None, 0,
                         ComparisonRaises(files, p, t), <<>>)
                       EXCEPT !.result = [comparison |-> get_baseline_comparison(files, p, t)]]
    /\ UNCHANGED <<files, remote, env, clock, ops, running>>

NextLedger ==
    \/ \E t \in ReportTypes, f \in ProvarLists : SaveBaselineHistory("P", t, f)
    \/ \E t \in ReportTypes, limit \in 0..MaxLimit : GetBaselineHistory("P", t, limit)
    \/ \E t \in ReportTypes : GetBaselineComparison("P", t)
    \/ \E t \in ReportTypes, i \in (0 - MaxLedgerIndex)..MaxLedgerIndex :
           DeleteBaselineVersion("P", t, i, env.BASELINE_ADMIN_KEY)
    \/ Tick

SpecLedger == InitLedger /\ [][NextLedger]_vars

-----------------------------------------------------------------------------
(* The ledger at its cap: appends and the clock, from a ledger one entry   *)
(* short of the cap or at it                                               *)

InitCap ==
    /\ \E n \in {HISTORY_LIMIT - 1, HISTORY_LIMIT} : files = SeededDisk(n)
    /\ remote = <<>>
    /\ env = [BASELINE_ADMIN_KEY |-> Str("k1"), GITHUB_TOKEN |-> None]
    /\ clock = 0
    /\ lastCall = NoCall
    /\ ops = 0
    /\ running = <<>>

NextCap ==
    \/ \E t \in ReportTypes, f \in ProvarLists : SaveBaselineHistory("P", t, f)
    \/ Tick

SpecCap == InitCap /\ [][NextCap]_vars

-----------------------------------------------------------------------------
(* The comparator alone: compare_with_baseline of both report types,       *)
(* applied to a list of current failures, over the baseline that a save    *)
(* has left for project P, or over none.  The comparator reads the disk    *)
(* and leaves it as it is, so one call per behaviour shows all it can do.  *)

MaxStored == 1
MaxCurrent == 3

\* A provar record that lacks its testcase field
PNoTestcase == Dict([error |-> Str("E1"), details |-> Str("d1")])
\* A1 as a later run reports it: same spec file, test and error summary, other details
A1b == Dict([project |-> Str("P"), spec_file |-> Str("s1"), test_name |-> Str("t1"),
             error_summary |-> Str("e1"), is_skipped |-> Bool(TRUE),
             error_details |-> Str("d2")])
\* An AutomationAPI record that lacks its error_summary field
ANoSummary == Dict([project |-> Str("P"), spec_file |-> Str("s1"), test_name |-> Str("t1"),
                    is_skipped |-> Bool(FALSE)])

ProvarRecords == {P1, P1b, P2, PNoTestcase}
ApiRecords == {A1, A1b, A2, ANoSummary, NoFailures}

\* The lists of at most n records of a set
ListsOf(records, n) == {List(l) : l \in UNION {[1..k -> records] : k \in 0..n}}

\* The disk after save_baseline has stored a list for P (the baseline file alone:
\* the comparator reads nothing else)
StoredProvar(failures) == WriteFile(<<>>, _get_baseline_path("P"), json_dump(failures))
StoredApi(failures) ==
    WriteFile(<<>>, _get_api_baseline_path("P"), json_dump(clean_failures(failures)))

InitCompare ==
    /\ files \in {<<>>}
                \cup {StoredProvar(b) : b \in ListsOf(ProvarRecords, MaxStored)}
                \cup {StoredApi(b) : b \in ListsOf(ApiRecords, MaxStored)}
    /\ remote = <<>>
    /\ env = [BASELINE_ADMIN_KEY |-> Str("k1"), GITHUB_TOKEN |-> None]
    /\ clock = 0
    /\ lastCall = NoCall
    /\ ops = 0
    /\ running = <<>>

\* baseline_manager.compare_with_baseline(project_name, current_failures)
CompareProvarBaseline(p, f) ==
    /\ lastCall = NoCall
    /\ lastCall' = [Call("compare_with_baseline", "provar", p, f, None, 0, "none", <<>>)
                       EXCEPT !.result = compare_provar_baseline(files, p, f)]
    /\ UNCHANGED <<files, remote, env, clock, ops, running>>

\* automation_api_baseline_manager.compare_with_baseline(project_name, current_failures)
CompareApiBaseline(p, f) ==
    /\ lastCall = NoCall
    /\ lastCall' = [Call("compare_with_baseline", "automation_api", p, f, None, 0, "none", <<>>)
                       EXCEPT !.result = compare_api_baseline(files, p, f)]
    /\ UNCHANGED <<files, remote, env, clock, ops, running>>

NextCompare ==
    \/ \E f \in ListsOf(ProvarRecords, MaxCurrent) : CompareProvarBaseline("P", f)
    \/ \E f \in ListsOf(ApiRecords, MaxCurrent) : CompareApiBaseline("P", f)

SpecCompare == InitCompare /\ [][NextCompare]_vars

-----------------------------------------------------------------------------
(* The mirror: provar saves that the remote accepts, rollbacks to a        *)
(* revision of the remote and version deletions, from an empty store or    *)
(* from the store and remote that two mirrored saves have left             *)

MaxRevision == 3

\* The store after save_baseline("P", [P1]) at time -2 and
\* save_baseline("P", [P2, P1b]) at time -1, both mirrored
SeedSave1 ==
    save_provar_baseline(<<>>, <<>>, Str("k1"), Str("tok"), 0 - 2, "P", List(<<P1>>), Str("k1"), "ok", "ok")
SeedSave2 ==
    save_provar_baseline(SeedSave1.files, SeedSave1.remote, Str("k1"), Str("tok"), 0 - 1, "P", List(<<P2, P1b>>), Str("k1"), "ok", "ok")

InitMirror ==
    /\ \/ files = <<>> /\ remote = <<>>
       \/ files = SeedSave2.files /\ remote = SeedSave2.remote
    /\ env \in [BASELINE_ADMIN_KEY : AdminKeyEnv, GITHUB_TOKEN : TokenEnv]
    /\ clock = 0
    /\ lastCall = NoCall
    /\ ops = 0
    /\ running = <<>>

\* What the network may do to a rollback called with this key: a call that
\* sends no request has nothing to draw
FetchNetwork(key) ==
    IF AdminGate(env.BASELINE_ADMIN_KEY, key) = "none" /\ truthy(env.GITHUB_TOKEN)
    THEN FetchOutcome
    ELSE {"ok"}

RollbackBaseline(p, sha, key, netF, netP) ==
    LET r == rollback_baseline(files, remote, env.BASELINE_ADMIN_KEY, env.GITHUB_TOKEN,
                               p, sha, key, netF, netP)
    IN  /\ ops < MaxOps
        /\ files' = r.files
        /\ remote' = r.remote
        /\ lastCall' = [Call("rollback_baseline", "provar", p, List(<<>>), key, sha, r.exc, r.http)
                           EXCEPT !.result = [fetch |-> netF, push |-> netP]]
        /\ ops' = ops + 1
        /\ UNCHANGED <<env, clock, running>>

NextMirror ==
    \/ \E f \in ProvarLists :
           SaveProvarBaseline("P", f, env.BASELINE_ADMIN_KEY, "ok", "ok")
    \/ \E sha \in 0..MaxRevision, key \in Credentials :
           \E netF \in FetchNetwork(key), netP \in Network(key) :
               RollbackBaseline("P", sha, key, netF, netP)
    \/ \E t \in ReportTypes, i \in Indexes, key \in Credentials :
           DeleteBaselineVersion("P", t, i, key)

SpecMirror == InitMirror /\ [][NextMirror]_vars

-----------------------------------------------------------------------------
(* The loader alone: load_baseline of both report types over whatever the  *)
(* baseline files of project P hold.  The loader leaves the disk as it is, *)
(* so one call per behaviour shows all it can do.                          *)

\* JSON documents that are no list
NonListDocs ==
    {<<"null">>, <<"number", 3>>, <<"string", "x">>, <<"true">>,
     <<"object", [testcase |-> <<"string", "T1">>]>>}

\* What a baseline file may hold
Contents(records) ==
    {EmptyText, GarbageText, BinaryText}
        \cup {JsonText(j) : j \in NonListDocs}
        \cup {json_dump(l) : l \in ListsOf(records, MaxStored)}

\* The disk holding the given contents, Absent for no file
Absent == [kind |-> "absent"]
DiskOf(provar, api) ==
    [q \in (IF provar = Absent THEN {} ELSE {_get_baseline_path("P")})
             \cup (IF api = Absent THEN {} ELSE {_get_api_baseline_path("P")}) |->
        IF q = _get_baseline_path("P") THEN provar ELSE api]

InitLoad ==
    /\ \E provar \in {Absent} \cup Contents(ProvarRecords),
          api \in {Absent} \cup Contents(ApiRecords) : files = DiskOf(provar, api)
    /\ remote = <<>>
    /\ env = [BASELINE_ADMIN_KEY |-> Str("k1"), GITHUB_TOKEN |-> None]
    /\ clock = 0
    /\ lastCall = NoCall
    /\ ops = 0
    /\ running = <<>>

\* load_baseline(project_name) of the manager of report type t
LoadBaseline(t, p) ==
    LET path == IF t = "provar" THEN _get_baseline_path(p) ELSE _get_api_baseline_path(p)
        exc == LoadRaises(files, path)
    IN  /\ lastCall = NoCall
        /\ lastCall' = [Call("load_baseline", t, p, List(<<>>), None, 0, exc, <<>>)
                           EXCEPT !.result = IF exc = "none"
                                             THEN [value |-> LoadList(files, path)]
                                             ELSE NoResult]
        /\ UNCHANGED <<files, remote, env, clock, ops, running>>

NextLoad == \E t \in ReportTypes, p \in Projects : LoadBaseline(t, p)

SpecLoad == InitLoad /\ [][NextLoad]_vars

-----------------------------------------------------------------------------
(* The full comparisons alone, applied to a current and a baseline report. *)
(* They read and write no file, so one call per behaviour shows all they   *)
(* can do.                                                                 *)

MaxReport == 2

\* Records as extract_failure_info builds them, and the "no failures" record of
\* create_no_failure_record
X1 == Dict([spec_name |-> Str("s1"), testcase_name |-> Str("T1"), error |-> Str("E1"),
            error_details |-> Str("d1")])
\* T1 failing again with another error
X1e == Dict([spec_name |-> Str("s1"), testcase_name |-> Str("T1"), error |-> Str("E2"),
             error_details |-> Str("d1")])
X2 == Dict([spec_name |-> Str("s1"), testcase_name |-> Str("T2"), error |-> Str("E2"),
            error_details |-> Str("d2")])
X3 == Dict([spec_name |-> Str("s2"), testcase_name |-> Str("T3"), error |-> Str("E3"),
            error_details |-> Str("d3")])
XNoFailures == Dict([name |-> Str("__NO_FAILURES__"), spec_name |-> Str(""),
                     testcase_name |-> Str(""), error |-> Str(""),
                     _no_failures |-> Bool(TRUE)])
ReportRecords == {X1, X1e, X2, X3, XNoFailures}

\* T1 failing with another error, as a provar record
P1e == Dict([testcase |-> Str("T1"), error |-> Str("E2"), details |-> Str("d1")])
EngineRecords == {P1, P1b, P1e, P2, PNoTestcase}

\* The baseline compare_reports takes: the records of a list that have a
\* signature, keyed by it
EngineBaseline(l) ==
    LET recs == SelectSeq(Items(l), LAMBDA f : report_sig(f).exc = "none")
    IN  Dict([k \in {report_sig(recs[i]).sig : i \in 1..Len(recs)} |->
                 recs[CHOOSE i \in 1..Len(recs) : report_sig(recs[i]).sig = k]])

InitReports ==
    /\ files = <<>>
    /\ remote = <<>>
    /\ env = [BASELINE_ADMIN_KEY |-> Str("k1"), GITHUB_TOKEN |-> None]
    /\ clock = 0
    /\ lastCall = NoCall
    /\ ops = 0
    /\ running = <<>>

\* compare_api_reports(current_failures, baseline_failures)
CompareApiReports(current, baseline, oNew, oFixed, oCommon) ==
    /\ lastCall = NoCall
    /\ lastCall' = [Call("compare_api_reports", "automation_api", "", current, None, 0, "none", <<>>)
                       EXCEPT !.result =
                           [baseline |-> baseline,
                            out |-> compare_api_reports(current, baseline, oNew, oFixed, oCommon)]]
    /\ UNCHANGED <<files, remote, env, clock, ops, running>>

\* compare_reports(new, baseline)
CompareReports(new, baseline, oFixed) ==
    LET r == compare_reports(new, baseline, oFixed)
    IN  /\ lastCall = NoCall
        /\ lastCall' = [Call("compare_reports", "provar", "", new, None, 0, r.exc, <<>>)
                           EXCEPT !.result = [baseline |-> baseline, out |-> r]]
        /\ UNCHANGED <<files, remote, env, clock, ops, running>>

NextReports ==
    \/ \E current, baseline \in ListsOf(ReportRecords, MaxReport) :
           LET k == ApiReportKeys(current, baseline)
           IN  \E oNew \in Orderings(k.new_keys), oFixed \in Orderings(k.fixed_keys),
                  oCommon \in Orderings(k.common_keys) :
                   CompareApiReports(current, baseline, oNew, oFixed, oCommon)
    \/ \E new, l \in ListsOf(EngineRecords, MaxReport) :
           \E oFixed \in Orderings(ReportsFixed(new, EngineBaseline(l))) :
               CompareReports(new, EngineBaseline(l), oFixed)

SpecReports == InitReports /\ [][NextReports]_vars

-----------------------------------------------------------------------------
(* The two report types side by side: saves, history appends and version   *)
(* deletions of both types for project P with the admin key, from an empty *)
(* store or from one where both types have a baseline and a ledger         *)

\* The disk after a provar save of [P1], an automation_api save of [A1] and a
\* history append of [A1] for automation_api, no remote configured
SeedBoth1 ==
    save_provar_baseline(<<>>, <<>>, Str("k1"), None, 0 - 3, "P", List(<<P1>>), Str("k1"), "ok", "ok").files
SeedBoth2 == save_api_baseline(SeedBoth1, Str("k1"), "P", List(<<A1>>), Str("k1")).files
SeedBoth3 ==
    save_baseline_history(SeedBoth2, <<>>, None, 0 - 2, "P", List(<<A1>>), "automation_api", "ok").files

InitBoth ==
    /\ files \in {<<>>, SeedBoth3}
    /\ remote = <<>>
    /\ env = [BASELINE_ADMIN_KEY |-> Str("k1"), GITHUB_TOKEN |-> None]
    /\ clock = 0
    /\ lastCall = NoCall
    /\ ops = 0
    /\ running = <<>>

NextBoth ==
    \/ \E f \in ProvarLists : SaveProvarBaseline("P", f, env.BASELINE_ADMIN_KEY, "ok", "ok")
    \/ \E f \in ApiLists : SaveApiBaseline("P", f, env.BASELINE_ADMIN_KEY)
    \/ \E f \in ProvarLists : SaveBaselineHistory("P", "provar", f)
    \/ \E f \in ApiLists : SaveBaselineHistory("P", "automation_api", f)
    \/ \E t \in ReportTypes, i \in Indexes :
           DeleteBaselineVersion("P", t, i, env.BASELINE_ADMIN_KEY)

SpecBoth == InitBoth /\ [][NextBoth]_vars

-----------------------------------------------------------------------------
(* Saves that overlap.  save_baseline opens the baseline file for writing, *)
(* which empties it; json.dump fills the buffer of the file handle; the    *)
(* buffer reaches the file in one or more writes at the handle's own       *)
(* position, the last of them when the with block closes the handle.  Then *)
(* the call loads the ledger, writes it with one more entry and returns.   *)
(* A reader or another save may run between any two of these steps.        *)

MaxWriters == 2
Writers == 1..MaxWriters

\* The most pieces one write may carry
MaxPieces == 4

\* The pieces of the text json.dump writes for a list: the opening bracket,
\* one piece per element, the closing bracket; and a run of zero bytes, which
\* is what a write beyond the end of a file leaves before it
OpenBracket == <<"[">>
CloseBracket == <<"]">>
Hole == <<"nul">>
Pieces(v) == <<OpenBracket>> \o [i \in 1..Len(v[2]) |-> json_dumps(v[2][i])] \o <<CloseBracket>>

\* A file as the pieces written to it so far
PieceText(pieces) == [kind |-> "pieces", pieces |-> pieces]

\* What a reader finds in such a file: nothing, a JSON array, or text that is
\* no JSON document
TextOf(pieces) ==
    IF pieces = <<>>
    THEN EmptyText
    ELSE IF /\ Len(pieces) >= 2
            /\ pieces[1] = OpenBracket
            /\ pieces[Len(pieces)] = CloseBracket
            /\ \A i \in 2..(Len(pieces) - 1) : pieces[i] \notin {OpenBracket, CloseBracket, Hole}
    THEN JsonText(<<"array", SubSeq(pieces, 2, Len(pieces) - 1)>>)
    ELSE GarbageText

\* The disk as open(path, "r") ... read() finds it
ReadDisk(fs) ==
    [q \in DOMAIN fs |-> IF fs[q].kind = "pieces" THEN TextOf(fs[q].pieces) ELSE fs[q]]

\* write(chunk) through a handle whose position is offset: the chunk replaces
\* what the file holds from there on, piece for piece, and whatever lies beyond
\* the chunk stays
WriteAt(old, offset, chunk) ==
    LET padded == IF Len(old) >= offset THEN old
                  ELSE old \o [i \in 1..(offset - Len(old)) |-> Hole]
    IN  SubSeq(padded, 1, offset) \o chunk
            \o SubSeq(padded, offset + Len(chunk) + 1, Len(padded))

Idle == [pc |-> "idle", project |-> "", failures |-> List(<<>>), key |-> None, offset |-> 0, buffer |-> <<>>, seen |-> Absent]

\* The disk with the file at path holding what a call has read from it earlier
DiskAsSeen(fs, path, seen) ==
    IF seen = Absent
    THEN [q \in DOMAIN fs \ {path} |-> fs[q]]
    ELSE WriteFile(fs, path, seen)

\* The disk after one complete save of [P1] for P, no remote configured
SeedRace ==
    save_provar_baseline(<<>>, <<>>, Str("k1"), None, 0 - 1, "P", List(<<P1>>), Str("k1"), "ok", "ok").files

InitRace ==
    /\ files = SeedRace
    /\ remote = <<>>
    /\ env = [BASELINE_ADMIN_KEY |-> Str("k1"), GITHUB_TOKEN |-> None]
    /\ clock = 0
    /\ lastCall = NoCall
    /\ ops = 0
    /\ running = [w \in Writers |-> Idle]

\* save_baseline up to and including open(path, "w"), for a call that passes
\* the gate
SaveOpen(w, p, f, key) ==
    /\ running[w].pc = "idle"
    /\ AdminGate(env.BASELINE_ADMIN_KEY, key) = "none"
    /\ files' = WriteFile(files, _get_baseline_path(p), PieceText(<<>>))
    /\ running' = [running EXCEPT ![w] =
                      [pc |-> "writing", project |-> p, key |-> key, offset |-> 0, seen |-> Absent,
                       failures |-> IF truthy(f) THEN f ELSE List(<<>>),
                       buffer |-> Pieces(IF truthy(f) THEN f ELSE List(<<>>))]]
    /\ UNCHANGED <<remote, env, clock, lastCall, ops>>

\* The next k pieces of the buffer reach the file
SaveFlush(w, k) ==
    LET me == running[w]
        path == _get_baseline_path(me.project)
    IN  /\ me.pc = "writing"
        /\ k \in 1..Len(me.buffer)
        /\ files' = WriteFile(files, path,
                        PieceText(WriteAt(files[path].pieces, me.offset, SubSeq(me.buffer, 1, k))))
        /\ running' = [running EXCEPT ![w].offset = me.offset + k,
                                      ![w].buffer = SubSeq(me.buffer, k + 1, Len(me.buffer))]
        /\ UNCHANGED <<remote, env, clock, lastCall, ops>>

\* The handle is closed with nothing left to write, and save_baseline_history
\* loads the ledger
SaveClose(w) ==
    LET me == running[w]
        history_path == _get_history_path(me.project, "provar")
    IN  /\ me.pc = "writing"
        /\ me.buffer = <<>>
        /\ running' = [running EXCEPT ![w].pc = "appending",
                                      ![w].seen = IF history_path \in DOMAIN files
                                                  THEN files[history_path]
                                                  ELSE Absent]
        /\ UNCHANGED <<files, remote, env, clock, lastCall, ops>>

\* save_baseline_history adds its entry to the ledger it has loaded and writes
\* the file; the call mirrors and returns
SaveAppend(w) ==
    LET me == running[w]
        history_path == _get_history_path(me.project, "provar")
        h == save_baseline_history(DiskAsSeen(files, history_path, me.seen), remote,
                                   env.GITHUB_TOKEN, clock, me.project, me.failures,
                                   "provar", "ok")
        c == _commit_to_github(h.remote, env.GITHUB_TOKEN, me.project, me.failures, "ok")
    IN  /\ me.pc = "appending"
        /\ files' = h.files
        /\ remote' = c.remote
        /\ running' = [running EXCEPT ![w].pc = "done"]
        /\ lastCall' = Call("save_baseline", "provar", me.project, me.failures, me.key, 0,
                            IF h.exc # "none" THEN h.exc ELSE c.exc, h.http \o c.http)
        /\ ops' = ops + 1
        /\ UNCHANGED <<env, clock>>

\* load_baseline(project_name) of the provar manager, whenever it runs
LoadDuring(p) ==
    LET disk == ReadDisk(files)
        exc == LoadRaises(disk, _get_baseline_path(p))
    IN  /\ lastCall' = [Call("load_baseline", "provar", p, List(<<>>), None, 0, exc, <<>>)
                           EXCEPT !.result = IF exc = "none"
                                             THEN [value |-> load_provar_baseline(disk, p)]
                                             ELSE NoResult]
        /\ UNCHANGED <<files, remote, env, clock, ops, running>>

\* compare_with_baseline(project_name, current_failures) of the provar manager,
\* whenever it runs
CompareDuring(p, c) ==
    /\ lastCall' = [Call("compare_with_baseline", "provar", p, c, None, 0, "none", <<>>)
                       EXCEPT !.result = compare_provar_baseline(ReadDisk(files), p, c)]
    /\ UNCHANGED <<files, remote, env, clock, ops, running>>

NextRace ==
    \/ \E w \in Writers, f \in ProvarLists : SaveOpen(w, "P", f, env.BASELINE_ADMIN_KEY)
    \/ \E w \in Writers, k \in 1..MaxPieces : SaveFlush(w, k)
    \/ \E w \in Writers : SaveClose(w)
    \/ \E w \in Writers : SaveAppend(w)
    \/ LoadDuring("P")
    \/ CompareDuring("P", List(<<P1, P2>>))

SpecRace == InitRace /\ [][NextRace]_vars

-----------------------------------------------------------------------------
(* The report analysis of app.py: the parser's records are normalized,     *)
(* compared with the stored baseline and offered for saving                *)

NO_FAILURES == "__NO_FAILURES__"

\* A normalizer that keeps every record, where the code drops the marker
RECURSIVE NormalizeLoop_KeepsMarker(_, _)
NormalizeLoop_KeepsMarker(todo, normalized) ==
    IF todo = <<>>
    THEN [exc |-> "none", value |-> List(normalized)]
    ELSE LET f == Head(todo)
         IN  IF {"name", "error", "details"} \subseteq DOMAIN Fields(f)
             THEN NormalizeLoop_KeepsMarker(Tail(todo), Append(normalized,
                      Dict([testcase |-> Fields(f)["name"],
                            testcase_path |-> getd(f, "testcase_path", Str("")),
                            error |-> Fields(f)["error"],
                            details |-> Fields(f)["details"]])))
             ELSE [exc |-> "KeyError", value |-> None]

\* The normalization loop of the provar analysis: the records whose name is not
\* the marker, rebuilt; f["name"], f["error"] and f["details"] raise KeyError
\* when the record has no such key
RECURSIVE NormalizeLoop(_, _)
NormalizeLoop(todo, normalized) ==
    IF todo = <<>>
    THEN [exc |-> "none", value |-> List(normalized)]
    ELSE LET f == Head(todo)
         IN  IF get(f, "name") = Str(NO_FAILURES)
             THEN NormalizeLoop(Tail(todo), normalized)
             ELSE IF {"name", "error", "details"} \subseteq DOMAIN Fields(f)
             THEN NormalizeLoop(Tail(todo), Append(normalized,
                      Dict([testcase |-> Fields(f)["name"],
                            testcase_path |-> getd(f, "testcase_path", Str("")),
                            error |-> Fields(f)["error"],
                            details |-> Fields(f)["details"]])))
             ELSE [exc |-> "KeyError", value |-> None]

\* The outcome of an analysis that appended no result
NoAnalysis ==
    [appended |-> FALSE, normalized |-> List(<<>>), new_failures |-> List(<<>>),
     existing_failures |-> List(<<>>), baseline_exists |-> FALSE]

\* The flag of the provar analysis: bool(load_baseline(project))
provar_flag(fs, project) == truthy(load_provar_baseline(fs, project))

\* The provar analysis of one uploaded file whose parser output is failures
\* ([] when the parser raised) and whose detected project is project
analyze_provar(fs, project, failures) ==
    LET n == NormalizeLoop(Items(failures), <<>>)
        path == _get_baseline_path(project)
        flag == provar_flag(fs, project)
        c == compare_provar_baseline(fs, project, n.value)
    IN  IF ~truthy(failures)
        THEN [exc |-> "none", result |-> NoAnalysis]
        ELSE IF n.exc # "none"
        THEN [exc |-> n.exc, result |-> NoAnalysis]
        ELSE IF LoadRaises(fs, path) # "none"
        THEN [exc |-> LoadRaises(fs, path), result |-> NoAnalysis]
        ELSE [exc |-> "none",
              result |-> [appended |-> TRUE, normalized |-> n.value,
                          new_failures |-> IF flag THEN c.new_failures ELSE n.value,
                          existing_failures |-> IF flag THEN c.existing_failures
                                                ELSE List(<<>>),
                          baseline_exists |-> flag]]

\* real_failures of the automation_api analysis
real_failures(failures) ==
    List(SelectSeq(Items(failures), LAMBDA f : ~truthy(get(f, "_no_failures"))))

\* The project the automation_api analysis works on
api_project(failures) == pystr(getd(Items(failures)[1], "project", Str("Unknown")))

\* The automation_api analysis of one uploaded file whose parser output is
\* failures; an exception of the comparison is caught and shown
analyze_api(fs, failures) ==
    LET project == api_project(failures)
        path == _get_api_baseline_path(project)
        flag == api_baseline_exists(fs, project)
        real == real_failures(failures)
        c == compare_api_baseline(fs, project, real)
        compares == flag /\ truthy(real)
    IN  IF ~truthy(failures)
        THEN [exc |-> "none", result |-> NoAnalysis]
        ELSE IF compares /\ LoadRaises(fs, path) # "none"
        THEN [exc |-> "none", result |-> NoAnalysis]
        ELSE [exc |-> "none",
              result |-> [appended |-> TRUE, normalized |-> real,
                          new_failures |-> IF compares THEN c.new_failures ELSE real,
                          existing_failures |-> IF compares THEN c.existing_failures
                                                ELSE List(<<>>),
                          baseline_exists |-> flag]]

\* Records of the provar parser: two failures, the marker of a report without
\* failures, and a record without an error key
R1 == Dict([name |-> Str("T1"), testcase_path |-> Str("c1"), error |-> Str("E1"), details |-> Str("d1")])
R2 == Dict([name |-> Str("T2"), testcase_path |-> Str("c2"), error |-> Str("E2"), details |-> Str("d2")])
RNoFailures == Dict([name |-> Str(NO_FAILURES), testcase_path |-> Str(""), error |-> Str(""), details |-> Str("")])
RNoError == Dict([name |-> Str("T1"), testcase_path |-> Str("c1"), details |-> Str("d1")])

ParsedProvar ==
    {List(<<>>), List(<<RNoFailures>>), List(<<R1>>), List(<<R1, R2>>), List(<<R2, RNoError, R1>>)}
ParsedApi == {List(<<>>), List(<<XNoFailures>>), List(<<X1>>), List(<<X1, X2>>)}

InitAnalysis ==
    /\ files = <<>>
    /\ remote = <<>>
    /\ env = [BASELINE_ADMIN_KEY |-> Str("k1"), GITHUB_TOKEN |-> None]
    /\ clock = 0
    /\ lastCall = NoCall
    /\ ops = 0
    /\ running = <<>>

\* "Analyze All Provar Reports" on one file
AnalyzeProvar(p, failures) ==
    LET r == analyze_provar(files, p, failures)
    IN  /\ lastCall' = [Call("analyze", "provar", p, failures, None, 0, r.exc, <<>>)
                           EXCEPT !.result = r.result]
        /\ UNCHANGED <<files, remote, env, clock, ops, running>>

\* "Analyze AutomationAPI Reports" on one file
AnalyzeApi(failures) ==
    LET r == analyze_api(files, failures)
        p == IF truthy(failures) THEN api_project(failures) ELSE ""
    IN  /\ lastCall' = [Call("analyze", "automation_api", p, failures, None, 0, r.exc, <<>>)
                           EXCEPT !.result = r.result]
        /\ UNCHANGED <<files, remote, env, clock, ops, running>>

\* "Save as Baseline" on the result of the analysis shown, with a key typed in
SaveAnalyzed(key) ==
    LET res == lastCall.result
        p == lastCall.project
        all_failures == List(Items(res.new_failures) \o Items(res.existing_failures))
        s == save_provar_baseline(files, remote, env.BASELINE_ADMIN_KEY, env.GITHUB_TOKEN,
                                  clock, p, all_failures, key, "ok", "ok")
        a == save_api_baseline(files, env.BASELINE_ADMIN_KEY, p, res.normalized, key)
    IN  /\ ops < MaxOps
        /\ lastCall.op = "analyze"
        /\ res.appended
        /\ truthy(key)
        /\ IF lastCall.rtype = "provar"
           THEN /\ files' = s.files
                /\ remote' = s.remote
                /\ lastCall' = Call("save_baseline", "provar", p, all_failures, key, 0, s.exc, s.http)
           ELSE /\ files' = a.files
                /\ remote' = remote
                /\ lastCall' = Call("save_baseline", "automation_api", p, res.normalized, key, 0, a.exc, <<>>)
        /\ ops' = ops + 1
        /\ UNCHANGED <<env, clock, running>>

NextAnalysis ==
    \/ \E f \in ParsedProvar : AnalyzeProvar("P", f)
    \/ \E f \in ParsedApi : AnalyzeApi(f)
    \/ \E key \in Credentials : SaveAnalyzed(key)

SpecAnalysis == InitAnalysis /\ [][NextAnalysis]_vars

-----------------------------------------------------------------------------
(* The comparators on records whose fields hold the separator of the key   *)
(* or the text that str() gives a missing field                            *)

MaxKeyed == 2

\* Two provar records whose testcase and error differ and join to the same text
PLeft == Dict([testcase |-> Str("a|b"), error |-> Str("c"), details |-> Str("d1")])
PRight == Dict([testcase |-> Str("a"), error |-> Str("b|c"), details |-> Str("d1")])
\* A provar record whose testcase is the text "None"
PNoneText == Dict([testcase |-> Str("None"), error |-> Str("E1"), details |-> Str("d1")])
\* Two AutomationAPI records whose spec file and test name differ and join to
\* the same text
ALeft == Dict([project |-> Str("P"), spec_file |-> Str("a|b"), test_name |-> Str("c"),
               error_summary |-> Str("e1"), is_skipped |-> Bool(FALSE)])
ARight == Dict([project |-> Str("P"), spec_file |-> Str("a"), test_name |-> Str("b|c"),
                error_summary |-> Str("e1"), is_skipped |-> Bool(FALSE)])

KeyedProvar == {P1, PLeft, PRight, PNoTestcase, PNoneText}
KeyedApi == {A1, ALeft, ARight}

InitKeys ==
    /\ files \in {StoredProvar(b) : b \in ListsOf(KeyedProvar, MaxStored)}
                \cup {StoredApi(b) : b \in ListsOf(KeyedApi, MaxStored)}
    /\ remote = <<>>
    /\ env = [BASELINE_ADMIN_KEY |-> Str("k1"), GITHUB_TOKEN |-> None]
    /\ clock = 0
    /\ lastCall = NoCall
    /\ ops = 0
    /\ running = <<>>

NextKeys ==
    \/ \E f \in ListsOf(KeyedProvar, MaxKeyed) : CompareProvarBaseline("P", f)
    \/ \E f \in ListsOf(KeyedApi, MaxKeyed) : CompareApiBaseline("P", f)

SpecKeys == InitKeys /\ [][NextKeys]_vars

-----------------------------------------------------------------------------
(* The ledger operations on a ledger file that holds no list               *)

\* JSON documents that are no list
NonListLedgers ==
    {<<"null">>, <<"number", 3>>, <<"true">>, <<"string", "xy">>,
     <<"object", <<>>>>, <<"object", [k |-> <<"number", 1>>]>>}

\* What a ledger file may hold besides a ledger
MalformedLedgers == {EmptyText, GarbageText} \cup {JsonText(d) : d \in NonListLedgers}

InitMalformed ==
    /\ \E c \in MalformedLedgers \cup {json_dump(List(<<>>))}, t \in ReportTypes :
           files = WriteFile(<<>>, _get_history_path("P", t), c)
    /\ remote = <<>>
    /\ env = [BASELINE_ADMIN_KEY |-> Str("k1"), GITHUB_TOKEN |-> None]
    /\ clock = 0
    /\ lastCall = NoCall
    /\ ops = 0
    /\ running = <<>>

NextMalformed ==
    \/ \E t \in ReportTypes, f \in ProvarLists : SaveBaselineHistory("P", t, f)
    \/ \E t \in ReportTypes, limit \in 0..MaxLimit : GetBaselineHistory("P", t, limit)
    \/ \E t \in ReportTypes : GetBaselineComparison("P", t)
    \/ \E t \in ReportTypes, i \in Indexes : DeleteBaselineVersion("P", t, i, env.BASELINE_ADMIN_KEY)

SpecMalformed == InitMalformed /\ [][NextMalformed]_vars

-----------------------------------------------------------------------------
(* The gated operations in a process whose admin key is not configured     *)
(* (BASELINE_ADMIN_KEY unset or empty), over the store and the remote that *)
(* two mirrored saves and an automation_api save have left                 *)

\* The admin keys a caller may pass, the empty string among them
AnyCredentials == Credentials \cup {Str("")}

\* The store of SeedSave2 with an automation_api baseline [A1] added
SeedUnconfigured == save_api_baseline(SeedSave2.files, Str("k1"), "P", List(<<A1>>), Str("k1")).files

InitUnconfigured ==
    /\ files = SeedUnconfigured
    /\ remote = SeedSave2.remote
    /\ env \in [BASELINE_ADMIN_KEY : {None, Str("")}, GITHUB_TOKEN : TokenEnv]
    /\ clock = 0
    /\ lastCall = NoCall
    /\ ops = 0
    /\ running = <<>>

NextUnconfigured ==
    \/ \E f \in ProvarLists, key \in AnyCredentials :
           \E netH, netB \in Network(key) : SaveProvarBaseline("P", f, key, netH, netB)
    \/ \E f \in ApiLists, key \in AnyCredentials : SaveApiBaseline("P", f, key)
    \/ \E t \in ReportTypes, i \in Indexes, key \in AnyCredentials :
           DeleteBaselineVersion("P", t, i, key)
    \/ \E sha \in 0..MaxRevision, key \in AnyCredentials :
           \E netF \in FetchNetwork(key), netP \in Network(key) :
               RollbackBaseline("P", sha, key, netF, netP)

SpecUnconfigured == InitUnconfigured /\ [][NextUnconfigured]_vars

-----------------------------------------------------------------------------
(* The trail of the provar ledger of P: appends, version deletions (by     *)
(* indexes counted from either end) and the clock, from no ledger, a       *)
(* ledger of three entries or a ledger at its cap                          *)

InitTrail ==
    /\ \E n \in {0, 3, HISTORY_LIMIT} : files = SeededDisk(n)
    /\ remote = <<>>
    /\ env = [BASELINE_ADMIN_KEY |-> Str("k1"), GITHUB_TOKEN |-> None]
    /\ clock = 0
    /\ lastCall = NoCall
    /\ ops = 0
    /\ running = <<>>

NextTrail ==
    \/ \E f \in ProvarLists : SaveBaselineHistory("P", "provar", f)
    \/ \E i \in (0 - MaxIndex)..MaxIndex :
           DeleteBaselineVersion("P", "provar", i, env.BASELINE_ADMIN_KEY)
    \/ Tick

SpecTrail == InitTrail /\ [][NextTrail]_vars

-----------------------------------------------------------------------------
(* Claims about the ledger, checked under SpecLedger and SpecCap           *)

\* The whole ledger of a project as get_baseline_history lists it, most recent first
Listed(fs, p, t) == Items(get_baseline_history(fs, p, t, HISTORY_LIMIT))

\* The step just taken is a call of op that ended without an exception
Returned(op) == lastCall'.op = op /\ lastCall'.exc = "none" /\ ops' = ops + 1

C10_DeleteRemovesListedEntry ==
    [][(Returned("delete_baseline_version") /\ lastCall'.index >= 0) =>
          LET before == Listed(files, lastCall'.project, lastCall'.rtype)
              after == Listed(files', lastCall'.project, lastCall'.rtype)
              i == lastCall'.index
          IN  /\ i < Len(before)
              /\ after = SubSeq(before, 1, i) \o SubSeq(before, i + 2, Len(before))]_vars

\* C10 witness: index 0 of the seeded 3-entry ledger was deleted: 2 entries
\* remain and the former index 1 is listed first.
C10_Witness ==
    /\ lastCall.op = "delete_baseline_version" /\ lastCall.exc = "none"
    /\ lastCall.index = 0 /\ ops = 1
    /\ Listed(files, "P", "provar") = <<SeedLedger(3)[2], SeedLedger(3)[1]>>

\* The step just taken is a call of delete_baseline_version
Deleted == lastCall'.op = "delete_baseline_version" /\ ops' = ops + 1

\* C11 (as claimed): a deletion called with the valid key and an index outside
\* 0..n-1, n the number of entries listed (any negative index, any index >= n,
\* any index when there is no ledger), ends with a not-found error
\* (FileNotFoundError or IndexError) and leaves every file as it was.
C11_OutOfRangeDeleteFails ==
    [][(/\ Deleted
        /\ lastCall'.key = env.BASELINE_ADMIN_KEY
        /\ lastCall'.index \notin 0..(Len(Listed(files, lastCall'.project, lastCall'.rtype)) - 1))
       => /\ lastCall'.exc \in {"FileNotFoundError", "IndexError"}
          /\ files' = files]_vars

\* What does hold of C11: the same for every index >= n, for every index < -n
\* and for every index when there is no ledger.
OutOfRangeDeleteFailsBeyondLength ==
    [][(/\ Deleted
        /\ lastCall'.key = env.BASELINE_ADMIN_KEY
        /\ LET n == Len(Listed(files, lastCall'.project, lastCall'.rtype))
           IN  lastCall'.index >= n \/ lastCall'.index < 0 - n)
       => /\ lastCall'.exc \in {"FileNotFoundError", "IndexError"}
          /\ files' = files]_vars

\* The ledger file of the last call as it is stored, in append order (oldest
\* first); no entry when there is no file
Appended ==
    LET path == _get_history_path(lastCall.project, lastCall.rtype)
    IN  IF path \in DOMAIN files THEN Items(json_loads(files[path].doc)) ELSE <<>>

\* C14: get_baseline_history(P, type, limit), limit >= 0, returns exactly
\* min(limit, n) entries of a ledger of n entries: the min(limit, n) most recently
\* appended ones, the most recent first (the reverse of append order).
C14_HistoryListsMostRecentFirst ==
    (lastCall.op = "get_baseline_history" /\ lastCall.index >= 0) =>
        LET n == Len(Appended)
            limit == lastCall.index
            history == Items(lastCall.result.history)
        IN  /\ Len(history) = IF limit < n THEN limit ELSE n
            /\ \A k \in 1..Len(history) : history[k] = Appended[n + 1 - k]

\* C14 witness: after one append to the seeded ledger of 3 entries, a listing
\* with limit 2 returned the entry just appended and the newest seeded one.
C14_Witness ==
    /\ lastCall.op = "get_baseline_history" /\ lastCall.index = 2
    /\ Len(Appended) = 4
    /\ Items(lastCall.result.history) = <<Appended[4], SeedLedger(3)[3]>>
    /\ Appended[4] # SeedLedger(3)[3]

\* C15: get_baseline_comparison returns None when the ledger has fewer than two
\* entries; otherwise current is the latest entry, previous the one before it,
\* failure_count_change is the failure_count of current minus that of previous,
\* and percentage_change is 0 whenever the failure_count of previous is 0.
C15_ComparisonOfLatestTwo ==
    lastCall.op = "get_baseline_comparison" =>
        LET n == Len(Appended)
            c == lastCall.result.comparison
        IN  IF n < 2
            THEN c = None
            ELSE /\ get(c, "current") = Appended[n]
                 /\ get(c, "previous") = Appended[n - 1]
                 /\ get(get(c, "diff"), "failure_count_change")
                        = Num(get(Appended[n], "failure_count")[2]
                                  - get(Appended[n - 1], "failure_count")[2])
                 /\ get(Appended[n - 1], "failure_count") = Num(0)
                        => get(get(c, "diff"), "percentage_change") = Num(0)

\* C15 witness: the latest entry counts 2 failures, the one before it none; the
\* comparison reports a change of 2 and a percentage change of 0.
C15_Witness ==
    /\ lastCall.op = "get_baseline_comparison"
    /\ Len(Appended) >= 2
    /\ get(Appended[Len(Appended)], "failure_count") = Num(2)
    /\ get(Appended[Len(Appended) - 1], "failure_count") = Num(0)
    /\ get(get(lastCall.result.comparison, "diff"), "failure_count_change") = Num(2)
    /\ get(get(lastCall.result.comparison, "diff"), "percentage_change") = Num(0)

-----------------------------------------------------------------------------
(* Claims about the store, checked under Spec                              *)

\* The step just taken is a call of save_baseline
Saved == lastCall'.op = "save_baseline" /\ ops' = ops + 1

\* ... made with a key that passes the admin gate
SavedWithValidKey == Saved /\ AdminGate(env.BASELINE_ADMIN_KEY, lastCall'.key) = "none"

exists(fs, t, p) ==
    IF t = "provar" THEN provar_baseline_exists(fs, p) ELSE api_baseline_exists(fs, p)
load(fs, t, p) ==
    IF t = "provar" THEN load_provar_baseline(fs, p) ELSE load_api_baseline(fs, p)

\* C2: save_baseline called with a key that differs from the configured admin key
\* ends with an authorization error (PermissionError), sends no request to the
\* remote, and leaves every file on disk (every baseline and every ledger) and
\* the remote as they were.
C2_RejectedSaveChangesNothing ==
    [][(Saved /\ truthy(env.BASELINE_ADMIN_KEY)
              /\ lastCall'.key # env.BASELINE_ADMIN_KEY) =>
          /\ lastCall'.exc = "PermissionError"
          /\ files' = files
          /\ remote' = remote
          /\ lastCall'.http = <<>>]_vars

\* C2 witness: a save has just been rejected for its key while a baseline and
\* its ledger are stored.
C2_Witness ==
    /\ lastCall.op = "save_baseline" /\ lastCall.exc = "PermissionError"
    /\ lastCall.key = Str("bad")
    /\ \E p \in Projects :
           /\ Len(Items(load_provar_baseline(files, p))) > 0
           /\ Len(Listed(files, p, "provar")) = 1

\* C3 (as claimed): a provar save made with a valid key returns normally, with
\* the baseline replaced and one history entry appended, whatever happens to the
\* pushes of the history file and of the baseline file.
C3_PushFailureNeverPropagates ==
    [][(SavedWithValidKey /\ lastCall'.rtype = "provar") =>
          /\ lastCall'.exc = "none"
          /\ load_provar_baseline(files', lastCall'.project) = lastCall'.failures
          /\ Len(Listed(files', lastCall'.project, "provar"))
                 = Len(Listed(files, lastCall'.project, "provar")) + 1]_vars

\* C4 (as claimed): every save made with a valid key, of either report type,
\* appends exactly one entry to the ledger of its project and report type
\* (the ledgers here stay below the cap of 50).
C4_EverySaveAppendsOneEntry ==
    [][SavedWithValidKey =>
          Len(Listed(files', lastCall'.project, lastCall'.rtype))
              = Len(Listed(files, lastCall'.project, lastCall'.rtype)) + 1]_vars

\* C5: no baseline exists at the start, and a baseline that does not exist stays
\* so (baseline_exists false, load_baseline []) until a save with a valid key is
\* made for its project and report type; after a save of [] with a valid key
\* baseline_exists is true and load_baseline is still [].
C5_EmptyVersusAbsent ==
    /\ \A t \in ReportTypes, p \in Projects :
           ~exists(files, t, p) /\ load(files, t, p) = List(<<>>)
    /\ [][/\ \A t \in ReportTypes, p \in Projects :
                 (/\ ~exists(files, t, p)
                  /\ ~(SavedWithValidKey /\ lastCall'.rtype = t /\ lastCall'.project = p))
                 => (~exists(files', t, p) /\ load(files', t, p) = List(<<>>))
          /\ (SavedWithValidKey /\ lastCall'.failures = List(<<>>)) =>
                 /\ exists(files', lastCall'.rtype, lastCall'.project)
                 /\ load(files', lastCall'.rtype, lastCall'.project) = List(<<>>)]_vars

\* C5 witness: [] has just been saved for P under both report types, Q was never
\* saved: exists tells P from Q, load does not.
C5_Witness ==
    /\ lastCall.op = "save_baseline" /\ lastCall.exc = "none"
    /\ lastCall.failures = List(<<>>) /\ lastCall.project = "P"
    /\ \A t \in ReportTypes :
           /\ exists(files, t, "P") /\ load(files, t, "P") = List(<<>>)
           /\ ~exists(files, t, "Q") /\ load(files, t, "Q") = List(<<>>)

\* C6 (as claimed): after a save with a valid key, of either report type,
\* load_baseline returns exactly the list that was saved: the same records, in
\* the same order, with the same fields.
C6_LoadEqualsSavedList ==
    [][SavedWithValidKey =>
          load(files', lastCall'.rtype, lastCall'.project) = lastCall'.failures]_vars

\* The records of a list that carry no "no failures" flag, each reduced to the
\* five fields project, spec_file, test_name, error_summary and is_skipped
\* (None for a field the record lacks, False for is_skipped)
FiveFields(f) ==
    Dict([k \in {"project", "spec_file", "test_name", "error_summary", "is_skipped"} |->
             IF k \in DOMAIN Fields(f) THEN Fields(f)[k]
             ELSE IF k = "is_skipped" THEN Bool(FALSE) ELSE None])
Flagged(f) == "_no_failures" \in DOMAIN Fields(f) /\ truthy(Fields(f)["_no_failures"])
RECURSIVE Reduced(_)
Reduced(records) ==
    IF records = <<>> THEN <<>>
    ELSE IF Flagged(Head(records)) THEN Reduced(Tail(records))
    ELSE <<FiveFields(Head(records))>> \o Reduced(Tail(records))

\* C6 (amended): after a save with a valid key, load_baseline returns, for
\* provar, exactly the list saved, and for automation_api the saved list without
\* its "no failures" records and with each record reduced to its five stored
\* fields, in the same order; nothing of the baseline stored before remains.
C6_LoadEqualsStoredFormOfSavedList ==
    [][SavedWithValidKey =>
          load(files', lastCall'.rtype, lastCall'.project)
              = IF lastCall'.rtype = "provar" THEN lastCall'.failures
                ELSE List(Reduced(Items(lastCall'.failures)))]_vars

\* C6 witness: B2 = [P2, P1b] has just been saved over the stored provar
\* baseline B1 = [P1] (the ledger shows both saves); load returns B2 and nothing
\* of B1.
C6_Witness ==
    /\ lastCall.op = "save_baseline" /\ lastCall.rtype = "provar" /\ ops = 2
    /\ lastCall.failures = List(<<P2, P1b>>)
    /\ Len(Listed(files, lastCall.project, "provar")) = 2
    /\ get(Listed(files, lastCall.project, "provar")[2], "failures") = List(<<P1>>)
    /\ load_provar_baseline(files, lastCall.project) = List(<<P2, P1b>>)

-----------------------------------------------------------------------------
(* Claims about the comparator, checked under SpecCompare                  *)

Compared == lastCall.op = "compare_with_baseline"
Current == Items(lastCall.failures)
New == Items(lastCall.result.new_failures)
Existing == Items(lastCall.result.existing_failures)

\* The elements of s at the positions in S, in the order they have in s
Pick(s, S) ==
    LET F[i \in 0..Len(s)] ==
            IF i = 0 THEN <<>>
            ELSE IF i \in S THEN Append(F[i - 1], s[i]) ELSE F[i - 1]
    IN  F[Len(s)]

\* new and existing split s: every position of s goes to exactly one of the two
\* lists, each list keeps the order of s, and no record is in both lists
SplitsInOrder(s, new, existing) ==
    /\ Len(new) + Len(existing) = Len(s)
    /\ \E S \in SUBSET (1..Len(s)) :
           new = Pick(s, S) /\ existing = Pick(s, (1..Len(s)) \ S)
    /\ \A i \in 1..Len(new), j \in 1..Len(existing) : new[i] # existing[j]

\* The records of a list that carry no truthy _no_failures flag, in their order
Unflagged(s) == SelectSeq(s, LAMBDA f : ~Flagged(f))

\* C7 (as claimed): for both comparators, every list of current failures and
\* every stored baseline, new and existing split current_failures: their lengths
\* add up to its length, no record is in both, each keeps its order.
C7_CompareSplitsCurrent ==
    Compared => SplitsInOrder(Current, New, Existing)

\* C7 (amended): the provar comparator splits current_failures in order; the
\* automation_api comparator splits, in order, the records of current_failures
\* that carry no truthy _no_failures flag, and returns the flagged ones in
\* neither list.
C7_CompareSplitsUnflaggedCurrent ==
    Compared =>
        SplitsInOrder(IF lastCall.rtype = "provar" THEN Current ELSE Unflagged(Current),
                      New, Existing)

\* C7 witness: the automation_api comparator was given a "no failures" record
\* between two failures, one of them in the baseline: one failure is new, the
\* other existing, the flagged record is in neither list.
C7_Witness ==
    /\ Compared /\ lastCall.rtype = "automation_api"
    /\ Current = <<A2, NoFailures, A1b>>
    /\ New = <<A2>> /\ Existing = <<A1b>>

\* The identity tuple of a record as the code reads it with dict.get:
\* (testcase, error) for provar, (spec_file, test_name, error_summary) for
\* automation_api, None for a field the record lacks
IdTuple(t, f) ==
    IF t = "provar"
    THEN <<get(f, "testcase"), get(f, "error")>>
    ELSE <<get(f, "spec_file"), get(f, "test_name"), get(f, "error_summary")>>

\* The stored baseline the last call read
Baseline == Items(load(files, lastCall.rtype, lastCall.project))

\* The current record at position i has the identity tuple of a baseline record
InBaseline(i) ==
    \E j \in 1..Len(Baseline) :
        IdTuple(lastCall.rtype, Baseline[j]) = IdTuple(lastCall.rtype, Current[i])

\* The current record at position i is returned in existing and not in new
OnlyInExisting(i) ==
    /\ \E k \in 1..Len(Existing) : Existing[k] = Current[i]
    /\ \A k \in 1..Len(New) : New[k] # Current[i]

\* C8 (as claimed): a current record whose identity tuple is that of a record
\* the baseline holds is returned in existing and not in new, whatever its other
\* fields and those of the baseline record are.
C8_SameIdentityIsExisting ==
    Compared => \A i \in 1..Len(Current) : InBaseline(i) => OnlyInExisting(i)

\* What does hold of C8: the same, for the current records that carry no truthy
\* _no_failures flag and, for automation_api, have an error_summary field.
SameIdentityIsExistingWhenSummaryPresent ==
    Compared =>
        \A i \in 1..Len(Current) :
            (/\ InBaseline(i)
             /\ ~Flagged(Current[i])
             /\ lastCall.rtype = "automation_api" =>
                    "error_summary" \in DOMAIN Fields(Current[i]))
            => OnlyInExisting(i)

\* C9 (as claimed): with no baseline stored for the project, both comparators
\* return (failures, []) for every list of current failures, without raising.
C9_NoBaselineAllNew ==
    (Compared /\ ~exists(files, lastCall.rtype, lastCall.project)) =>
        /\ lastCall.exc = "none"
        /\ lastCall.result.new_failures = lastCall.failures
        /\ lastCall.result.existing_failures = List(<<>>)

\* C9 (amended): with no baseline stored for the project, the provar comparator
\* returns (failures, []) and the automation_api comparator returns (the records
\* of failures that carry no truthy _no_failures flag, in their order, []);
\* neither raises.
C9_NoBaselineAllUnflaggedNew ==
    (Compared /\ ~exists(files, lastCall.rtype, lastCall.project)) =>
        /\ lastCall.exc = "none"
        /\ New = IF lastCall.rtype = "provar" THEN Current ELSE Unflagged(Current)
        /\ Existing = <<>>

\* C9 witness: nothing is stored; the automation_api comparator was given two
\* failures and a "no failures" record and returned the two failures as new.
C9_Witness ==
    /\ Compared /\ lastCall.rtype = "automation_api"
    /\ files = <<>>
    /\ Current = <<A1, NoFailures, A2>>
    /\ New = <<A1, A2>> /\ Existing = <<>>


-----------------------------------------------------------------------------
(* Claims about the admin operations and the mirror, checked under         *)
(* SpecMirror                                                              *)

\* The step just taken is a call of rollback_baseline
Rolled == lastCall'.op = "rollback_baseline" /\ ops' = ops + 1

\* C12: delete_baseline_version and rollback_baseline called with a key that
\* differs from the configured admin key end with an authorization error
\* (PermissionError), send no request to the remote, and leave every file on
\* disk (ledgers and baselines) and the remote as they were.
C12_RejectedAdminCallChangesNothing ==
    [][((Deleted \/ Rolled) /\ truthy(env.BASELINE_ADMIN_KEY)
                            /\ lastCall'.key # env.BASELINE_ADMIN_KEY) =>
          /\ lastCall'.exc = "PermissionError"
          /\ files' = files
          /\ remote' = remote
          /\ lastCall'.http = <<>>]_vars

\* C12 witness: a rollback to an existing revision has just been rejected for
\* its key, with a token configured, a baseline and a ledger on disk and two
\* revisions on the remote.
C12_Witness ==
    /\ lastCall.op = "rollback_baseline" /\ lastCall.exc = "PermissionError"
    /\ lastCall.key = Str("bad") /\ lastCall.index = 1
    /\ truthy(env.GITHUB_TOKEN)
    /\ load_provar_baseline(files, "P") = List(<<P2, P1b>>)
    /\ Len(Listed(files, "P", "provar")) = 2
    /\ Len(remote[_get_baseline_path("P")]) = 2

\* s is a prefix of t
IsPrefix(s, t) == Len(s) <= Len(t) /\ SubSeq(t, 1, Len(s)) = s

\* C18: a rollback never removes or truncates a revision the remote holds nor
\* touches a ledger or any file but the local baseline of its project, however
\* it ends; and a rollback with the valid key to a revision the remote holds,
\* whose requests the remote answers and whose write it accepts, returns with
\* the local baseline file holding the content of that revision and with that
\* content added to the remote as the new head revision of the baseline file.
C18_RollbackMovesForward ==
    [][Rolled =>
          LET path == _get_baseline_path(lastCall'.project)
              sha == lastCall'.index
          IN  /\ \A q \in DOMAIN remote :
                     q \in DOMAIN remote' /\ IsPrefix(remote[q], remote'[q])
              /\ \A q \in DOMAIN files :
                     q # path => (q \in DOMAIN files' /\ files'[q] = files[q])
              /\ DOMAIN files' \subseteq DOMAIN files \cup {path}
              /\ (/\ AdminGate(env.BASELINE_ADMIN_KEY, lastCall'.key) = "none"
                  /\ truthy(env.GITHUB_TOKEN)
                  /\ path \in DOMAIN remote /\ sha \in 1..Len(remote[path])
                  /\ lastCall'.result.fetch = "ok" /\ lastCall'.result.push = "ok")
                 => /\ lastCall'.exc = "none"
                    /\ files'[path] = remote[path][sha]
                    /\ remote'[path] = Append(remote[path], remote[path][sha])]_vars

\* C18 witness: the baseline was rolled back to revision 1, [P1], over the
\* stored [P2, P1b]: the local baseline is [P1], the remote holds the two
\* earlier revisions and [P1] again as the third, the ledger still has its two
\* entries.
C18_Witness ==
    /\ lastCall.op = "rollback_baseline" /\ lastCall.exc = "none"
    /\ lastCall.index = 1 /\ ops = 1
    /\ load_provar_baseline(files, "P") = List(<<P1>>)
    /\ remote[_get_baseline_path("P")]
           = <<json_dump(List(<<P1>>)), json_dump(List(<<P2, P1b>>)), json_dump(List(<<P1>>))>>
    /\ Len(Listed(files, "P", "provar")) = 2


-----------------------------------------------------------------------------
(* Claims about the loader, checked under SpecLoad                         *)

Loaded == lastCall.op = "load_baseline"
LoadedPath ==
    IF lastCall.rtype = "provar" THEN _get_baseline_path(lastCall.project)
    ELSE _get_api_baseline_path(lastCall.project)

\* The file read holds a JSON list
HoldsList ==
    /\ LoadedPath \in DOMAIN files
    /\ files[LoadedPath].kind = "json"
    /\ files[LoadedPath].doc[1] = "array"

\* C13 (as claimed): load_baseline never raises, whatever the baseline file
\* holds; it returns the stored list when the file holds a JSON list and []
\* when there is no file, when the file is empty, when its content is no
\* parseable JSON and when the JSON is no list.
C13_LoadNeverRaises ==
    Loaded =>
        /\ lastCall.exc = "none"
        /\ lastCall.result
               = [value |-> IF HoldsList THEN json_loads(files[LoadedPath].doc)
                            ELSE List(<<>>)]

\* What does hold of C13: the same for every file that is UTF-8 text.
LoadNeverRaisesOnText ==
    (Loaded /\ ~(LoadedPath \in DOMAIN files /\ files[LoadedPath].kind = "binary")) =>
        /\ lastCall.exc = "none"
        /\ lastCall.result
               = [value |-> IF HoldsList THEN json_loads(files[LoadedPath].doc)
                            ELSE List(<<>>)]


-----------------------------------------------------------------------------
(* Claims about the full comparisons, checked under SpecReports            *)

\* The elements of a list, as a set
Elems(l) == {Items(l)[i] : i \in 1..Len(Items(l))}

\* The identity tuple of a record of the AutomationAPI parser: spec, test and
\* error (the fields spec_name, testcase_name and error of the record)
ReportId(f) == <<get(f, "spec_name"), get(f, "testcase_name"), get(f, "error")>>
ReportIds(l) == {ReportId(f) : f \in Elems(l)}

\* The split the claim describes, of a current and a baseline list
NewByIdentity(current, baseline) ==
    {f \in Elems(current) : ReportId(f) \notin ReportIds(baseline)}
FixedByIdentity(current, baseline) ==
    {f \in Elems(baseline) : ReportId(f) \notin ReportIds(current)}
CommonByIdentity(current, baseline) ==
    {f \in Elems(current) : ReportId(f) \in ReportIds(baseline)}

\* C16 (as claimed): the full comparison returns as new the current records
\* whose identity tuple (spec, test, error) no baseline record has, as fixed the
\* baseline records whose identity tuple no current record has, as common the
\* current records whose identity tuple a baseline record has; so a test that
\* fails in both with a different error is new and its baseline record fixed.
\* For compare_reports, whose baseline is keyed by signature and whose fixed
\* list holds signatures, the same is stated of the signatures.
C16_FullComparisonByIdentity ==
    /\ lastCall.op = "compare_api_reports" =>
           LET out == lastCall.result.out
               current == lastCall.failures
               baseline == lastCall.result.baseline
           IN  /\ Elems(out.new_failures) = NewByIdentity(current, baseline)
               /\ Elems(out.fixed_failures) = FixedByIdentity(current, baseline)
               /\ Elems(out.common_failures) = CommonByIdentity(current, baseline)
    /\ (lastCall.op = "compare_reports" /\ lastCall.exc = "none") =>
           LET out == lastCall.result.out
               current == Items(lastCall.failures)
               sigs == DOMAIN Fields(lastCall.result.baseline)
           IN  /\ Items(out.new) = SelectSeq(current, LAMBDA f : report_sig(f).sig \notin sigs)
               /\ Items(out.known) = SelectSeq(current, LAMBDA f : report_sig(f).sig \in sigs)
               /\ Elems(out.fixed)
                      = {Str(k) : k \in sigs \ {report_sig(f).sig : f \in Elems(lastCall.failures)}}

\* What does hold of C16, for compare_api_reports: the example of the claim,
\* baseline [T1/E1, T3/E3] and current [T1/E1, T2/E2], gives new = [T2/E2],
\* fixed = [T3/E3], common = [T1/E1].
FullComparisonExample ==
    (/\ lastCall.op = "compare_api_reports"
     /\ lastCall.failures = List(<<X1, X2>>)
     /\ lastCall.result.baseline = List(<<X1, X3>>))
    => /\ lastCall.result.out.new_failures = List(<<X2>>)
       /\ lastCall.result.out.fixed_failures = List(<<X3>>)
       /\ lastCall.result.out.common_failures = List(<<X1>>)

\* What does hold of C16, for compare_reports: the part of the claim stated of
\* it above.
EngineComparisonBySignature ==
    lastCall.op = "compare_reports" => C16_FullComparisonByIdentity


-----------------------------------------------------------------------------
(* Claims about the two report types, checked under SpecBoth               *)

\* The other report type
Other(t) == IF t = "provar" THEN "automation_api" ELSE "provar"

\* C17: a save, a history append or a version deletion made under one report
\* type leaves, for the same project name, the baseline file, baseline_exists,
\* load_baseline and the ledger of the other report type as they were.
C17_ReportTypesAreIndependent ==
    [][ops' = ops + 1 =>
          LET p == lastCall'.project
              u == Other(lastCall'.rtype)
          IN  /\ lastCall'.op \in {"save_baseline", "save_baseline_history",
                                   "delete_baseline_version"}
              /\ exists(files', u, p) = exists(files, u, p)
              /\ load(files', u, p) = load(files, u, p)
              /\ Listed(files', p, u) = Listed(files, p, u)
              /\ \A q \in {IF u = "provar" THEN _get_baseline_path(p)
                            ELSE _get_api_baseline_path(p),
                            _get_history_path(p, u)} :
                     /\ q \in DOMAIN files' <=> q \in DOMAIN files
                     /\ q \in DOMAIN files => files'[q] = files[q]]_vars

\* C17 witness: an automation_api save of [] and a deletion of the only entry
\* of the automation_api ledger were made for P; the provar baseline [P1] and
\* its ledger of one entry are as they were, the automation_api baseline is []
\* and its ledger empty.
C17_Witness ==
    /\ ops = 2
    /\ lastCall.rtype = "automation_api" /\ lastCall.exc = "none"
    /\ load_provar_baseline(files, "P") = List(<<P1>>)
    /\ Len(Listed(files, "P", "provar")) = 1
    /\ api_baseline_exists(files, "P") /\ load_api_baseline(files, "P") = List(<<>>)
    /\ _get_history_path("P", "automation_api") \in DOMAIN files
    /\ Listed(files, "P", "automation_api") = <<>>


-----------------------------------------------------------------------------
(* Claims about overlapping calls, checked under SpecRace                  *)

\* The lists a reader may be given: the one saved before any of the calls
\* began, and the list of every save that has begun
Visible == {List(<<P1>>)} \cup {running[w].failures : w \in {v \in Writers : running[v].pc # "idle"}}

\* The disk with baseline b stored whole for project p
Whole(p, b) == WriteFile(files, _get_baseline_path(p), json_dump(b))

\* C19: a load_baseline or a compare_with_baseline that runs while a save is
\* under way is given the earlier baseline or the one being saved, whole: the
\* load returns one of the two lists and the comparison is the comparison
\* against one of them, never against an empty or partly written baseline.
C19_ReaderSeesWholeBaseline ==
    [][running' = running =>
          /\ lastCall'.op = "load_baseline" =>
                /\ lastCall'.exc = "none"
                /\ \E b \in Visible : lastCall'.result = [value |-> b]
          /\ lastCall'.op = "compare_with_baseline" =>
                \E b \in Visible :
                    lastCall'.result
                        = compare_provar_baseline(Whole(lastCall'.project, b),
                                                  lastCall'.project, lastCall'.failures)]_vars

\* All the saves have returned
AllDone == \A w \in Writers : running[w].pc = "done"

\* C20: when two authorized saves of the same project overlap, both return
\* without an exception and the baseline left is the list of one of them,
\* never a mixture of the two.
C20_OverlappingSavesLeaveOneBaseline ==
    /\ lastCall.op = "save_baseline" => lastCall.exc = "none"
    /\ AllDone =>
          /\ LoadRaises(ReadDisk(files), _get_baseline_path("P")) = "none"
          /\ \E w \in Writers : load_provar_baseline(ReadDisk(files), "P") = running[w].failures

\* What does hold of C20: every overlapping save returns without an exception.
OverlappingSavesReturn == lastCall.op = "save_baseline" => lastCall.exc = "none"


-----------------------------------------------------------------------------
(* Claims about the report analysis, checked under SpecAnalysis            *)

Analyzed == lastCall.op = "analyze" /\ lastCall.exc = "none" /\ lastCall.result.appended

\* A record that is the parser's "no failures" marker, before or after
\* normalization
IsMarker(r) ==
    \/ get(r, "name") = Str(NO_FAILURES)
    \/ get(r, "testcase") = Str(NO_FAILURES)
    \/ truthy(get(r, "_no_failures"))

NoMarkerIn(l) == \A i \in 1..Len(Items(l)) : ~IsMarker(Items(l)[i])

\* C21: the analysis of a parser output that is the marker alone yields the
\* empty normalized list, and no record of a normalized list, of a comparison
\* result, of a list handed to save_baseline or of a stored baseline is the
\* marker, for provar and for automation_api.
C21_MarkerIsFiltered ==
    /\ (Analyzed /\ lastCall.failures \in {List(<<RNoFailures>>), List(<<XNoFailures>>)}) =>
           /\ lastCall.result.normalized = List(<<>>)
           /\ lastCall.result.new_failures = List(<<>>)
           /\ lastCall.result.existing_failures = List(<<>>)
    /\ Analyzed =>
           /\ NoMarkerIn(lastCall.result.normalized)
           /\ NoMarkerIn(lastCall.result.new_failures)
           /\ NoMarkerIn(lastCall.result.existing_failures)
    /\ lastCall.op = "save_baseline" => NoMarkerIn(lastCall.failures)
    /\ \A q \in DOMAIN files : NoMarkerIn(LoadList(files, q))

\* C21 witness: the marker-only output of both parsers was analyzed and saved;
\* both baselines are stored and empty.
C21_Witness ==
    /\ ops = 2
    /\ lastCall.op = "save_baseline" /\ lastCall.exc = "none"
    /\ provar_baseline_exists(files, "P") /\ load_provar_baseline(files, "P") = List(<<>>)
    /\ api_baseline_exists(files, "Unknown") /\ load_api_baseline(files, "Unknown") = List(<<>>)

\* The normalized form of a parser record whose missing fields read as ""
Defaulted(f) ==
    Dict([testcase |-> getd(f, "name", Str("")),
          testcase_path |-> getd(f, "testcase_path", Str("")),
          error |-> getd(f, "error", Str("")),
          details |-> getd(f, "details", Str(""))])

\* The records of a parser output that are not the marker, each in that form
AllDefaulted(failures) ==
    LET kept == SelectSeq(Items(failures), LAMBDA f : get(f, "name") # Str(NO_FAILURES))
    IN  List([i \in 1..Len(kept) |-> Defaulted(kept[i])])

ProvarAnalysisRan == lastCall.op = "analyze" /\ lastCall.rtype = "provar" /\ truthy(lastCall.failures)

\* C22: the provar normalizer raises on no parser record: a record without a
\* name, error or details key is normalized with "" in that field, and the
\* records after it are normalized as well.
C22_NormalizerDefaultsMissingKeys ==
    ProvarAnalysisRan =>
        /\ lastCall.exc = "none"
        /\ lastCall.result.normalized = AllDefaulted(lastCall.failures)

\* What does hold of C22: the same for a parser output whose records all have
\* the three keys.
NormalizerKeepsCompleteRecords ==
    (/\ ProvarAnalysisRan
     /\ \A i \in 1..Len(Items(lastCall.failures)) :
            {"name", "error", "details"} \subseteq DOMAIN Fields(Items(lastCall.failures)[i])) =>
        /\ lastCall.exc = "none"
        /\ lastCall.result.normalized = AllDefaulted(lastCall.failures)

\* C25: the analysis reports that a baseline exists exactly when a baseline is
\* stored for the project, for provar as for automation_api; a project whose
\* stored baseline is the empty list has a baseline.
C25_FlagTellsStoredBaseline ==
    Analyzed => (lastCall.result.baseline_exists
                     <=> exists(files, lastCall.rtype, lastCall.project))

\* What does hold of C25: the flag of the automation_api analysis, and the flag
\* of the provar analysis when the stored baseline is not the empty list.
FlagTellsNonEmptyBaseline ==
    (Analyzed /\ (lastCall.rtype = "provar" => truthy(load_provar_baseline(files, lastCall.project))
                                               \/ ~provar_baseline_exists(files, lastCall.project))) =>
        (lastCall.result.baseline_exists <=> exists(files, lastCall.rtype, lastCall.project))

-----------------------------------------------------------------------------
(* Claims about the keys of the comparators, checked under SpecKeys        *)

\* C23: compare_with_baseline returns a current record in existing only if the
\* baseline holds a record with the same identity tuple, component by
\* component: (testcase, error) for provar, (spec_file, test_name,
\* error_summary) for automation_api, a missing field being no text.
C23_ExistingOnlyByEqualIdentity ==
    Compared =>
        \A k \in 1..Len(Existing) :
            \E j \in 1..Len(Baseline) :
                IdTuple(lastCall.rtype, Baseline[j]) = IdTuple(lastCall.rtype, Existing[k])

-----------------------------------------------------------------------------
(* Claims about malformed ledgers, checked under SpecMalformed             *)

\* A file whose content is no JSON list
Malformed(text) == json_load(text).exc # "none" \/ ~IsList(json_load(text).value)

\* A file whose content is no JSON document
Unparseable(text) == json_load(text).exc # "none"

\* The disk with every such file replaced by an empty ledger
AsEmpty(fs, Bad(_)) == [q \in DOMAIN fs |-> IF Bad(fs[q]) THEN json_dump(List(<<>>)) ELSE fs[q]]

\* The last call ended as it would have had every such file held an empty
\* ledger, and left the ledger it works on as it would have left it then
EndsAsOnEmpty(Bad(_)) ==
    LET c == lastCall'
        fs == AsEmpty(files, Bad)
        q == _get_history_path(c.project, c.rtype)
        s == save_baseline_history(fs, remote, env.GITHUB_TOKEN, clock, c.project,
                                   c.failures, c.rtype, "ok")
        d == delete_baseline_version(fs, env.BASELINE_ADMIN_KEY, c.project, c.index,
                                     c.rtype, c.key)
    IN  /\ (c.op = "save_baseline_history" /\ ops' = ops + 1) =>
               /\ c.exc = s.exc
               /\ AsEmpty(files', Bad)[q] = s.files[q]
        /\ (c.op = "delete_baseline_version" /\ ops' = ops + 1) =>
               /\ c.exc = d.exc
               /\ q \in DOMAIN files' <=> q \in DOMAIN d.files
               /\ q \in DOMAIN files' => AsEmpty(files', Bad)[q] = d.files[q]
        /\ (c.op = "get_baseline_history" /\ files' = files) =>
               /\ c.exc = "none"
               /\ c.result = [history |-> get_baseline_history(fs, c.project, c.rtype, c.index)]
        /\ (c.op = "get_baseline_comparison" /\ files' = files) =>
               /\ c.exc = ComparisonRaises(fs, c.project, c.rtype)
               /\ c.result = [comparison |-> get_baseline_comparison(fs, c.project, c.rtype)]

\* C24: every ledger operation ends on a ledger file that holds unparseable
\* JSON or JSON that is no list as it ends on an empty ledger: the malformed
\* content raises nothing of its own and counts as no entries.
C24_MalformedLedgerIsEmpty == [][EndsAsOnEmpty(Malformed)]_vars

\* What does hold of C24: save_baseline_history, get_baseline_history and
\* get_baseline_comparison end on a ledger file that holds no JSON document as
\* they end on an empty ledger.
UnparseableLedgerReadsEmpty ==
    [][lastCall'.op # "delete_baseline_version" => EndsAsOnEmpty(Unparseable)]_vars

-----------------------------------------------------------------------------
(* Claims about the unconfigured admin key, checked under SpecUnconfigured *)

\* C26: while BASELINE_ADMIN_KEY is unset or empty, save_baseline of both
\* report types, delete_baseline_version and rollback_baseline end with an
\* exception whatever key they are given (None and "" included), send no
\* request, and leave every baseline, every ledger and the remote as they were.
C26_UnconfiguredKeyAuthorizesNothing ==
    [][(ops' = ops + 1 /\ ~truthy(env.BASELINE_ADMIN_KEY)) =>
          /\ lastCall'.op \in {"save_baseline", "delete_baseline_version", "rollback_baseline"}
          /\ lastCall'.exc \in {"RuntimeError", "PermissionError"}
          /\ lastCall'.http = <<>>
          /\ files' = files
          /\ remote' = remote]_vars

\* C26 witness: with the admin key set to "" and a token configured, two gated
\* calls were made, the second a rollback given the key None that ended with
\* RuntimeError; the baselines of both report types, the provar ledger of two
\* entries and the two revisions of the remote are there.
C26_Witness ==
    /\ env.BASELINE_ADMIN_KEY = Str("") /\ truthy(env.GITHUB_TOKEN)
    /\ ops = 2
    /\ lastCall.op = "rollback_baseline" /\ lastCall.key = None
    /\ lastCall.exc = "RuntimeError"
    /\ load_provar_baseline(files, "P") = List(<<P2, P1b>>)
    /\ load_api_baseline(files, "P") = clean_failures(List(<<A1>>))
    /\ Len(Listed(files, "P", "provar")) = 2
    /\ Len(remote[_get_baseline_path("P")]) = 2

-----------------------------------------------------------------------------
(* Claims about the ledger and the store together, checked under SpecMirror *)

\* The most recent entry of the provar ledger of P is the snapshot of the
\* stored baseline of P
LatestEntryIsBaseline ==
    LET history == Listed(files, "P", "provar")
        baseline == load_provar_baseline(files, "P")
    IN  /\ Len(history) > 0
        /\ get(history[1], "failures") = baseline
        /\ get(history[1], "failure_count") = Num(Len(Items(baseline)))

\* C27: in every state that saves, version deletions and rollbacks made one
\* after the other reach, a provar project that has a baseline has a ledger
\* whose most recent entry holds that baseline as its failures and the length
\* of that baseline as its failure_count.
C27_LatestEntryIsBaseline == provar_baseline_exists(files, "P") => LatestEntryIsBaseline

\* What does hold of C27: the same in the state a save leaves that returned
\* without an exception.
LatestEntryIsBaselineAfterSave ==
    (lastCall.op = "save_baseline" /\ lastCall.exc = "none") => LatestEntryIsBaseline

\* C28: when the saves of SpecRace have all returned, the provar ledger of P
\* has gained one entry for each of them (it held one entry before, far below
\* the cap) and its most recent entry holds the baseline that is stored: its
\* failures are the stored list and its failure_count the length of that list.
C28_OverlappingSavesKeepLedger ==
    AllDone =>
        LET history == Listed(files, "P", "provar")
            baseline == load_provar_baseline(ReadDisk(files), "P")
        IN  /\ Len(history) = 1 + MaxWriters
            /\ get(history[1], "failures") = baseline
            /\ get(history[1], "failure_count") = Num(Len(Items(baseline)))

-----------------------------------------------------------------------------
(* Claims about saves that end with an exception, checked under Spec       *)

\* C29: a save_baseline that ends with an exception, whatever raised it (the
\* gate, the history append or a push), leaves every baseline file and every
\* ledger file as they were before the call.
C29_FailedSaveChangesNothing == [][(Saved /\ lastCall'.exc # "none") => files' = files]_vars

-----------------------------------------------------------------------------
(* Claims about the trail of the ledger, checked under SpecTrail           *)

RECURSIVE MatchFrom(_, _, _, _)
MatchFrom(s, t, i, j) ==
    IF i > Len(s) THEN TRUE
    ELSE IF j > Len(t) THEN FALSE
    ELSE IF s[i] = t[j] THEN MatchFrom(s, t, i + 1, j + 1)
    ELSE MatchFrom(s, t, i, j + 1)

IsSubsequence(s, t) == MatchFrom(s, t, 1, 1)

\* The entry an append made at this moment adds
EntryOfCall ==
    Dict([timestamp |-> Str(strftime(clock)),
          failure_count |-> Num(Len(Items(lastCall'.failures))),
          failures |-> lastCall'.failures,
          report_type |-> Str(lastCall'.rtype)])

\* C30: get_baseline_history lists the stored ledger newest entry first.  Every
\* append leaves the appended entry followed by the entries listed before, less
\* the ones it drops, and every version deletion leaves the entries listed
\* before less some of them, the rest in their order and as they were; so the
\* stored ledger is at all times a subsequence of the entries appended, in
\* append order.  The failure_count of every stored entry is the length of its
\* failures.
C30_LedgerIsSubsequenceOfAppends ==
    [][\A before \in {<<>> \o Listed(files, "P", "provar")}, after \in {<<>> \o Listed(files', "P", "provar")} :
           /\ (lastCall'.op = "save_baseline_history" /\ ops' = ops + 1) =>
                  /\ lastCall'.exc = "none"
                  /\ IsSubsequence(after, <<EntryOfCall>> \o before)
                  /\ after # <<>>
                  /\ after[1] = EntryOfCall
           /\ (lastCall'.op = "delete_baseline_version" /\ ops' = ops + 1) =>
                  IsSubsequence(after, before)
           /\ \A k \in 1..Len(after) :
                  get(after[k], "failure_count") = Num(Len(Items(get(after[k], "failures"))))]_vars

\* C30 witness: from the ledger at its cap, an append of [P2, P1b] dropped the
\* oldest entry and a deletion of version 1 removed the entry before the
\* appended one: the ledger holds one entry less than the cap, its oldest entry
\* is the second of the seed and its newest the appended one.
C30_Witness ==
    /\ ops = 2
    /\ lastCall.op = "delete_baseline_version" /\ lastCall.exc = "none" /\ lastCall.index = 1
    /\ Len(Listed(files, "P", "provar")) = HISTORY_LIMIT - 1
    /\ Listed(files, "P", "provar")[HISTORY_LIMIT - 1] = SeedLedger(HISTORY_LIMIT)[2]
    /\ get(Listed(files, "P", "provar")[1], "failures") = List(<<P2, P1b>>)

====
